---- MODULE Spec2Model ----
(***************************************************************************)
(* Model of substreams-sink-postgres.                                      *)
(*                                                                         *)
(* The Loader's in-memory change journal: Insert, Update, Delete and       *)
(* createRowUniqueID (src/db/types.go).  The SQL sinker: Run,              *)
(* HandleBlockScopedData, applyDatabaseChanges, HandleBlockUndoSignal and  *)
(* batchBlockModulo (src/unnamed/part_000).  The CSV sinker                *)
(* (src/sinker/bulk_sinker.go).  The ordered map, the Operation            *)
(* constructors, mergeData, Loader.Flush, Loader.Revert, the cursor        *)
(* queries, the shutter and the bundler are not among the sources at       *)
(* hand; they follow sections 3, 4.4, 4.5, 4.6 and 4.7 of the              *)
(* specification.                                                          *)
(*                                                                         *)
(* SpecLoader drives the Loader call by call; Spec is the sinker process   *)
(* fed by the stream, with the flush transaction taken step by step;       *)
(* SpecSignals adds undo signals and a cursor stored under another module  *)
(* hash; SpecShutdown adds the shutdown of the shutters step by step;      *)
(* SpecCSV is the CSV sinker.                                              *)
(***************************************************************************)
EXTENDS Integers, Sequences, FiniteSets, TLC

\* ------------------------------------------------------------------------
\* Bounds of the model
\* ------------------------------------------------------------------------

\* Number of Loader calls explored by the Loader-level specification.
MaxCalls == 3

\* Number of blocks the stream delivers over the life of the model.
MaxDelivered == 2

\* Number of table changes and undo signals the stream delivers over the
\* life of the model.
MaxStreamed == 2

\* ------------------------------------------------------------------------
\* Program constants
\* ------------------------------------------------------------------------

HISTORICAL_BLOCK_FLUSH_EACH == 1000

LIVE_BLOCK_FLUSH_EACH == 1

\* ------------------------------------------------------------------------
\* Values
\* ------------------------------------------------------------------------

\* A nil error, a nil pointer to a record.
Nil == "nil"

\* A nil *uint64 (block numbers are naturals).
NilBlock == 0 - 1

\* The empty map[string]string.
EmptyMap == [c \in {} |-> ""]

\* All maps from a subset of the columns cols to the values vals.
MapsOver(cols, vals) == UNION {[s -> vals] : s \in SUBSET cols}

\* dst overridden, key by key, with src  (for k, v := range src { dst[k] = v }).
MapOverride(dst, src) ==
    [c \in (DOMAIN dst) \cup (DOMAIN src) |-> IF c \in DOMAIN src THEN src[c] ELSE dst[c]]

\* Lexicographic order of the column names in use (Go's string <).
ColumnOrder == <<"age", "id", "k1", "k2", "name">>

ColumnIndex(c) == CHOOSE i \in 1..Len(ColumnOrder) : ColumnOrder[i] = c

\* The keys of m, sorted  (sort.Slice(keys, keys[i] < keys[j])).
SortedKeys(m) ==
    LET idx == {ColumnIndex(c) : c \in DOMAIN m}
        RECURSIVE build(_)
        build(s) == IF s = {} THEN <<>>
                    ELSE LET lo == CHOOSE i \in s : \A j \in s : i <= j
                         IN <<ColumnOrder[lo]>> \o build(s \ {lo})
    IN build(idx)

RECURSIVE Join(_, _)
\* strings.Join(values, sep)
Join(values, sep) ==
    IF Len(values) = 0 THEN ""
    ELSE IF Len(values) = 1 THEN values[1]
    ELSE values[1] \o sep \o Join(Tail(values), sep)

createRowUniqueID(m) ==
    IF Cardinality(DOMAIN m) = 1
    THEN m[CHOOSE k \in DOMAIN m : TRUE]
    ELSE LET keys == SortedKeys(m)
         IN Join([i \in 1..Len(keys) |-> m[keys[i]]], "/")

\* ------------------------------------------------------------------------
\* Table registry (TableInfo.primaryColumns of every table of the schema)
\* ------------------------------------------------------------------------

tables == [users |-> <<"id">>, pairs |-> <<"k1", "k2">>]

HasTable(tableName) == tableName \in DOMAIN tables

SeqRange(s) == {s[i] : i \in 1..Len(s)}

\* ------------------------------------------------------------------------
\* Operations and the ordered journal
\* ------------------------------------------------------------------------

OperationTypeInsert == "Insert"

OperationTypeUpdate == "Update"

OperationTypeDelete == "Delete"

newInsertOperation(table, primaryKey, data, reversibleBlockNum) ==
    [opType |-> OperationTypeInsert, table |-> table, primaryKey |-> primaryKey,
     data |-> data, reversibleBlockNum |-> reversibleBlockNum]

newUpdateOperation(table, primaryKey, data, reversibleBlockNum) ==
    [opType |-> OperationTypeUpdate, table |-> table, primaryKey |-> primaryKey,
     data |-> data, reversibleBlockNum |-> reversibleBlockNum]

newDeleteOperation(table, primaryKey, reversibleBlockNum) ==
    [opType |-> OperationTypeDelete, table |-> table, primaryKey |-> primaryKey,
     data |-> EmptyMap, reversibleBlockNum |-> reversibleBlockNum]

\* op.mergeData(data): the fields of data override the operation's fields.
mergeData(op, data) == [op EXCEPT !.data = MapOverride(op.data, data)]

\* An insertion-ordered map is a sequence of [key, value] pairs with
\* pairwise distinct keys.
NewOrderedMap == <<>>

OMHas(m, key) == \E i \in 1..Len(m) : m[i].key = key

OMGet(m, key) == m[CHOOSE i \in 1..Len(m) : m[i].key = key].value

\* Set keeps the position of a key that is present and appends a new key.
OMSet(m, key, value) ==
    IF OMHas(m, key)
    THEN [i \in 1..Len(m) |-> IF m[i].key = key THEN [key |-> key, value |-> value] ELSE m[i]]
    ELSE Append(m, [key |-> key, value |-> value])

\* l.entries.Get(tableName) followed, when absent, by
\* l.entries.Set(tableName, NewOrderedMap()).
EnsureEntry(entries, tableName) ==
    IF OMHas(entries, tableName) THEN entries ELSE OMSet(entries, tableName, NewOrderedMap)

\* ------------------------------------------------------------------------
\* Loader mutation API.  l is the Loader's mutable state
\* [entries, entriesCount]; the result is [err, l].
\* ------------------------------------------------------------------------

\* Insert as it would be if it rejected only a pending Insert.
Insert_RejectsOnlyInsert(l, tableName, primaryKey, data, reversibleBlockNum) ==
    LET uniqueID == createRowUniqueID(primaryKey) IN
    IF ~HasTable(tableName) THEN [err |-> "unknown table", l |-> l]
    ELSE
      LET entries1 == EnsureEntry(l.entries, tableName)
          entry == OMGet(entries1, tableName)
          pkCols == {c \in SeqRange(tables[tableName]) : c \in DOMAIN primaryKey}
          data1 == MapOverride(data, [c \in pkCols |-> primaryKey[c]])
      IN IF OMHas(entry, uniqueID) /\ OMGet(entry, uniqueID).opType = OperationTypeInsert
         THEN [err |-> "already scheduled", l |-> [l EXCEPT !.entries = entries1]]
         ELSE [err |-> Nil,
               l |-> [entries |-> OMSet(entries1, tableName,
                                    OMSet(entry, uniqueID,
                                      newInsertOperation(tableName, primaryKey, data1, reversibleBlockNum))),
                      entriesCount |-> l.entriesCount + 1]]

Insert(l, tableName, primaryKey, data, reversibleBlockNum) ==
    LET uniqueID == createRowUniqueID(primaryKey) IN
    IF ~HasTable(tableName) THEN [err |-> "unknown table", l |-> l]
    ELSE
      LET entries1 == EnsureEntry(l.entries, tableName)
          entry == OMGet(entries1, tableName)
          pkCols == {c \in SeqRange(tables[tableName]) : c \in DOMAIN primaryKey}
          data1 == MapOverride(data, [c \in pkCols |-> primaryKey[c]])
      IN IF OMHas(entry, uniqueID)
         THEN [err |-> "already scheduled", l |-> [l EXCEPT !.entries = entries1]]
         ELSE [err |-> Nil,
               l |-> [entries |-> OMSet(entries1, tableName,
                                    OMSet(entry, uniqueID,
                                      newInsertOperation(tableName, primaryKey, data1, reversibleBlockNum))),
                      entriesCount |-> l.entriesCount + 1]]

\* Update as it would be without the check of the dialect.
Update_IgnoresDialect(l, onlyInsertsDialect, tableName, primaryKey, data, reversibleBlockNum) ==
    LET uniqueID == createRowUniqueID(primaryKey) IN
    IF ~HasTable(tableName) THEN [err |-> "unknown table", l |-> l]
    ELSE IF Len(tables[tableName]) = 0 THEN [err |-> "no primary key", l |-> l]
    ELSE
      LET entries1 == EnsureEntry(l.entries, tableName)
          entry == OMGet(entries1, tableName)
      IN IF OMHas(entry, uniqueID)
         THEN LET op == OMGet(entry, uniqueID) IN
              IF op.opType = OperationTypeDelete
              THEN [err |-> "scheduled to be deleted", l |-> [l EXCEPT !.entries = entries1]]
              ELSE [err |-> Nil,
                    l |-> [l EXCEPT !.entries =
                             OMSet(entries1, tableName, OMSet(entry, uniqueID, mergeData(op, data)))]]
         ELSE [err |-> Nil,
               l |-> [entries |-> OMSet(entries1, tableName,
                                    OMSet(entry, uniqueID,
                                      newUpdateOperation(tableName, primaryKey, data, reversibleBlockNum))),
                      entriesCount |-> l.entriesCount + 1]]

\* Update as it would be without the check for a pending Delete.
Update_MergesIntoDelete(l, onlyInsertsDialect, tableName, primaryKey, data, reversibleBlockNum) ==
    LET uniqueID == createRowUniqueID(primaryKey) IN
    IF onlyInsertsDialect THEN [err |-> "update not supported", l |-> l]
    ELSE IF ~HasTable(tableName) THEN [err |-> "unknown table", l |-> l]
    ELSE IF Len(tables[tableName]) = 0 THEN [err |-> "no primary key", l |-> l]
    ELSE
      LET entries1 == EnsureEntry(l.entries, tableName)
          entry == OMGet(entries1, tableName)
      IN IF OMHas(entry, uniqueID)
         THEN [err |-> Nil,
               l |-> [l EXCEPT !.entries =
                        OMSet(entries1, tableName,
                          OMSet(entry, uniqueID, mergeData(OMGet(entry, uniqueID), data)))]]
         ELSE [err |-> Nil,
               l |-> [entries |-> OMSet(entries1, tableName,
                                    OMSet(entry, uniqueID,
                                      newUpdateOperation(tableName, primaryKey, data, reversibleBlockNum))),
                      entriesCount |-> l.entriesCount + 1]]

\* Update as it would be if it replaced a pending operation instead of
\* merging into it.
Update_Replaces(l, onlyInsertsDialect, tableName, primaryKey, data, reversibleBlockNum) ==
    LET uniqueID == createRowUniqueID(primaryKey) IN
    IF onlyInsertsDialect THEN [err |-> "update not supported", l |-> l]
    ELSE IF ~HasTable(tableName) THEN [err |-> "unknown table", l |-> l]
    ELSE IF Len(tables[tableName]) = 0 THEN [err |-> "no primary key", l |-> l]
    ELSE
      LET entries1 == EnsureEntry(l.entries, tableName)
          entry == OMGet(entries1, tableName)
      IN IF OMHas(entry, uniqueID) /\ OMGet(entry, uniqueID).opType = OperationTypeDelete
         THEN [err |-> "scheduled to be deleted", l |-> [l EXCEPT !.entries = entries1]]
         ELSE [err |-> Nil,
               l |-> [entries |-> OMSet(entries1, tableName,
                                    OMSet(entry, uniqueID,
                                      newUpdateOperation(tableName, primaryKey, data, reversibleBlockNum))),
                      entriesCount |-> IF OMHas(entry, uniqueID) THEN l.entriesCount
                                       ELSE l.entriesCount + 1]]

Update(l, onlyInsertsDialect, tableName, primaryKey, data, reversibleBlockNum) ==
    LET uniqueID == createRowUniqueID(primaryKey) IN
    IF onlyInsertsDialect THEN [err |-> "update not supported", l |-> l]
    ELSE IF ~HasTable(tableName) THEN [err |-> "unknown table", l |-> l]
    ELSE IF Len(tables[tableName]) = 0 THEN [err |-> "no primary key", l |-> l]
    ELSE
      LET entries1 == EnsureEntry(l.entries, tableName)
          entry == OMGet(entries1, tableName)
      IN IF OMHas(entry, uniqueID)
         THEN LET op == OMGet(entry, uniqueID) IN
              IF op.opType = OperationTypeDelete
              THEN [err |-> "scheduled to be deleted", l |-> [l EXCEPT !.entries = entries1]]
              ELSE [err |-> Nil,
                    l |-> [l EXCEPT !.entries =
                             OMSet(entries1, tableName, OMSet(entry, uniqueID, mergeData(op, data)))]]
         ELSE [err |-> Nil,
               l |-> [entries |-> OMSet(entries1, tableName,
                                    OMSet(entry, uniqueID,
                                      newUpdateOperation(tableName, primaryKey, data, reversibleBlockNum))),
                      entriesCount |-> l.entriesCount + 1]]

\* Delete as it would be if it added its operation to the journal without
\* replacing the pending one.
Delete_Appends(l, onlyInsertsDialect, tableName, primaryKey, reversibleBlockNum) ==
    LET uniqueID == createRowUniqueID(primaryKey) IN
    IF onlyInsertsDialect THEN [err |-> "delete not supported", l |-> l]
    ELSE IF ~HasTable(tableName) THEN [err |-> "unknown table", l |-> l]
    ELSE IF Len(tables[tableName]) # 1 THEN [err |-> "no single primary key", l |-> l]
    ELSE
      LET entries1 == EnsureEntry(l.entries, tableName)
          entry == OMGet(entries1, tableName)
      IN [err |-> Nil,
          l |-> [entries |-> OMSet(entries1, tableName,
                               Append(entry, [key |-> uniqueID,
                                 value |-> newDeleteOperation(tableName, primaryKey, reversibleBlockNum)])),
                 entriesCount |-> l.entriesCount + 1]]

\* Delete as it would be if deleting a row with a pending operation only
\* dropped that operation from the journal.
Delete_CancelsPending(l, onlyInsertsDialect, tableName, primaryKey, reversibleBlockNum) ==
    LET uniqueID == createRowUniqueID(primaryKey) IN
    IF onlyInsertsDialect THEN [err |-> "delete not supported", l |-> l]
    ELSE IF ~HasTable(tableName) THEN [err |-> "unknown table", l |-> l]
    ELSE IF Len(tables[tableName]) # 1 THEN [err |-> "no single primary key", l |-> l]
    ELSE
      LET entries1 == EnsureEntry(l.entries, tableName)
          entry == OMGet(entries1, tableName)
      IN IF OMHas(entry, uniqueID)
         THEN [err |-> Nil,
               l |-> [entries |-> OMSet(entries1, tableName,
                                    SelectSeq(entry, LAMBDA e : e.key # uniqueID)),
                      entriesCount |-> l.entriesCount - 1]]
         ELSE [err |-> Nil,
               l |-> [entries |-> OMSet(entries1, tableName,
                                    OMSet(entry, uniqueID,
                                      newDeleteOperation(tableName, primaryKey, reversibleBlockNum))),
                      entriesCount |-> l.entriesCount + 1]]

\* Delete as it would be if it rejected a row whose Delete is pending.
Delete_RejectsDeleted(l, onlyInsertsDialect, tableName, primaryKey, reversibleBlockNum) ==
    LET uniqueID == createRowUniqueID(primaryKey) IN
    IF onlyInsertsDialect THEN [err |-> "delete not supported", l |-> l]
    ELSE IF ~HasTable(tableName) THEN [err |-> "unknown table", l |-> l]
    ELSE IF Len(tables[tableName]) # 1 THEN [err |-> "no single primary key", l |-> l]
    ELSE
      LET entries1 == EnsureEntry(l.entries, tableName)
          entry == OMGet(entries1, tableName)
          count1 == IF OMHas(entry, uniqueID) THEN l.entriesCount ELSE l.entriesCount + 1
      IN IF OMHas(entry, uniqueID) /\ OMGet(entry, uniqueID).opType = OperationTypeDelete
         THEN [err |-> "scheduled to be deleted", l |-> [l EXCEPT !.entries = entries1]]
         ELSE [err |-> Nil,
               l |-> [entries |-> OMSet(entries1, tableName,
                                    OMSet(entry, uniqueID,
                                      newDeleteOperation(tableName, primaryKey, reversibleBlockNum))),
                      entriesCount |-> count1]]

\* Delete as it would be if it counted an operation it replaces.
Delete_CountsReplaced(l, onlyInsertsDialect, tableName, primaryKey, reversibleBlockNum) ==
    LET uniqueID == createRowUniqueID(primaryKey) IN
    IF onlyInsertsDialect THEN [err |-> "delete not supported", l |-> l]
    ELSE IF ~HasTable(tableName) THEN [err |-> "unknown table", l |-> l]
    ELSE IF Len(tables[tableName]) # 1 THEN [err |-> "no single primary key", l |-> l]
    ELSE
      LET entries1 == EnsureEntry(l.entries, tableName)
          entry == OMGet(entries1, tableName)
          count1 == l.entriesCount + 1
      IN [err |-> Nil,
          l |-> [entries |-> OMSet(entries1, tableName,
                               OMSet(entry, uniqueID,
                                 newDeleteOperation(tableName, primaryKey, reversibleBlockNum))),
                 entriesCount |-> count1]]

Delete(l, onlyInsertsDialect, tableName, primaryKey, reversibleBlockNum) ==
    LET uniqueID == createRowUniqueID(primaryKey) IN
    IF onlyInsertsDialect THEN [err |-> "delete not supported", l |-> l]
    ELSE IF ~HasTable(tableName) THEN [err |-> "unknown table", l |-> l]
    ELSE IF Len(tables[tableName]) # 1 THEN [err |-> "no single primary key", l |-> l]
    ELSE
      LET entries1 == EnsureEntry(l.entries, tableName)
          entry == OMGet(entries1, tableName)
          count1 == IF OMHas(entry, uniqueID) THEN l.entriesCount ELSE l.entriesCount + 1
      IN [err |-> Nil,
          l |-> [entries |-> OMSet(entries1, tableName,
                               OMSet(entry, uniqueID,
                                 newDeleteOperation(tableName, primaryKey, reversibleBlockNum))),
                 entriesCount |-> count1]]

\* ------------------------------------------------------------------------
\* The database: user rows and the cursors table
\* ------------------------------------------------------------------------

\* A row is [cols, blockNum]: its column values and its __block_num__.
\* A row matches a primary key when it carries every key column's value.
RowMatches(row, primaryKey) ==
    \A c \in DOMAIN primaryKey : c \in DOMAIN row.cols /\ row.cols[c] = primaryKey[c]

\* The statement of one journal operation executed on the user tables.
\* The result is [err, rows]; an INSERT of a present key is a unique violation.
ExecOperation(rws, op) ==
    LET t == op.table IN
    CASE op.opType = OperationTypeInsert ->
           IF \E r \in rws[t] : RowMatches(r, op.primaryKey)
           THEN [err |-> "duplicate key", rows |-> rws]
           ELSE [err |-> Nil,
                 rows |-> [rws EXCEPT ![t] = @ \cup {[cols |-> op.data, blockNum |-> op.reversibleBlockNum]}]]
      [] op.opType = OperationTypeUpdate ->
           [err |-> Nil,
            rows |-> [rws EXCEPT ![t] =
                        {IF RowMatches(r, op.primaryKey)
                         THEN [cols |-> MapOverride(r.cols, op.data),
                               blockNum |-> IF op.reversibleBlockNum = NilBlock THEN r.blockNum
                                            ELSE op.reversibleBlockNum]
                         ELSE r : r \in @}]]
      [] op.opType = OperationTypeDelete ->
           [err |-> Nil,
            rows |-> [rws EXCEPT ![t] = {r \in @ : ~RowMatches(r, op.primaryKey)}]]

\* The journal in flush order: tables in their insertion order, and within
\* a table the operations in row insertion order.
RECURSIVE FlushOrder(_)
FlushOrder(ents) ==
    IF Len(ents) = 0 THEN <<>>
    ELSE [i \in 1..Len(ents[1].value) |-> ents[1].value[i].value] \o FlushOrder(Tail(ents))

\* UPDATE cursors SET ... WHERE id = moduleHash
UpdateCursor(curs, moduleHash, cursor) ==
    [h \in DOMAIN curs |-> IF h = moduleHash THEN cursor ELSE curs[h]]

\* INSERT INTO cursors (or its replacement when the id is present)
InsertCursor(curs, moduleHash, cursor) ==
    [h \in (DOMAIN curs) \cup {moduleHash} |-> IF h = moduleHash THEN cursor ELSE curs[h]]

RECURSIVE ExecAll(_, _)
\* The operations ops executed in order on rws, stopping at the first error.
ExecAll(rws, ops) ==
    IF Len(ops) = 0 THEN [err |-> Nil, rows |-> rws]
    ELSE LET r == ExecOperation(rws, ops[1])
         IN IF r.err # Nil THEN [err |-> r.err, rows |-> rws]
            ELSE ExecAll(r.rows, Tail(ops))

\* Loader.reset(): a new journal and a zero count.
ResetLoader == [entries |-> NewOrderedMap, entriesCount |-> 0]

\* Loader.Flush as one call: every statement and the cursor update in one
\* transaction; on error nothing is committed and the journal is kept.
Flush(l, rws, curs, moduleHash, cursor) ==
    LET r == ExecAll(rws, FlushOrder(l.entries)) IN
    IF r.err # Nil
    THEN [err |-> r.err, l |-> l, rows |-> rws, cursors |-> curs]
    ELSE [err |-> Nil, l |-> ResetLoader, rows |-> r.rows,
          cursors |-> UpdateCursor(curs, moduleHash, cursor)]

RECURSIVE HistoryOf(_, _)
\* What the dialect records when the operations ops run on rws: for every
\* statement that carries a reversible block number and writes a row, the
\* row's key, the block number and the row as it was (prev, empty when the
\* statement inserted the row).
HistoryOf(rws, ops) ==
    IF Len(ops) = 0 THEN <<>>
    ELSE LET op == ops[1]
             hit == {r \in rws[op.table] : RowMatches(r, op.primaryKey)}
             recorded == /\ op.reversibleBlockNum # NilBlock
                         /\ op.opType = OperationTypeInsert \/ hit # {}
         IN (IF recorded
             THEN <<[table |-> op.table, primaryKey |-> op.primaryKey,
                     blockNum |-> op.reversibleBlockNum, prev |-> hit]>>
             ELSE <<>>) \o HistoryOf(ExecOperation(rws, op).rows, Tail(ops))

RECURSIVE RevertRows(_, _, _)
\* The dialect's revert statement: the writes recorded beyond block
\* lastValidBlock are undone, the latest first; a row inserted beyond it is
\* deleted, a row updated or deleted beyond it gets its prior values back.
RevertRows(rws, hist, lastValidBlock) ==
    IF Len(hist) = 0 THEN rws
    ELSE LET e == hist[Len(hist)]
             rest == SubSeq(hist, 1, Len(hist) - 1)
         IN IF e.blockNum > lastValidBlock
            THEN RevertRows([rws EXCEPT ![e.table] =
                                {r \in @ : ~RowMatches(r, e.primaryKey)} \cup e.prev],
                            rest, lastValidBlock)
            ELSE RevertRows(rws, rest, lastValidBlock)

RECURSIVE RevertHistory(_, _)
\* The history a revert to lastValidBlock keeps.
RevertHistory(hist, lastValidBlock) ==
    IF Len(hist) = 0 THEN <<>>
    ELSE (IF hist[1].blockNum > lastValidBlock THEN <<>> ELSE <<hist[1]>>)
         \o RevertHistory(Tail(hist), lastValidBlock)

\* Loader.GetCursor's error when the cursors table is empty.
ErrCursorNotFound == "cursor not found"

\* Values of OnModuleHashMismatch.
MismatchPolicies == {"ignore", "warn", "error"}

\* Loader.GetCursor: the cursor stored under moduleHash; when there is none
\* but another hash has one, the cursor of the highest block among them,
\* flagged as a mismatch, which policy "error" turns into an error.
GetCursor(curs, moduleHash, onMismatch) ==
    IF DOMAIN curs = {}
    THEN [cursor |-> 0 - 1, mistmatchDetected |-> FALSE, err |-> ErrCursorNotFound]
    ELSE IF moduleHash \in DOMAIN curs
    THEN [cursor |-> curs[moduleHash], mistmatchDetected |-> FALSE, err |-> Nil]
    ELSE LET top == CHOOSE h \in DOMAIN curs : \A g \in DOMAIN curs : curs[g] <= curs[h]
         IN IF onMismatch = "error"
            THEN [cursor |-> 0 - 1, mistmatchDetected |-> TRUE, err |-> "module hash mismatch"]
            ELSE [cursor |-> curs[top], mistmatchDetected |-> TRUE, err |-> Nil]

\* ------------------------------------------------------------------------
\* State
\* ------------------------------------------------------------------------

VARIABLES
    onlyInserts,    \* dialect capability: getDialect().OnlyInserts()
    flushInterval,  \* loader.FlushInterval()
    entries,        \* Loader.entries: table -> (row id -> Operation), ordered
    entriesCount,   \* Loader.entriesCount
    rows,           \* committed user rows, per table
    cursors,        \* committed cursors table: module hash -> cursor block
    tx,             \* the open flush transaction, or Nil
    pc,             \* position of the sinker process
    call,           \* the last Loader call: arguments, error, state before it
                    \* (under the sinker: the call that failed in the last block)
    calls,          \* number of Loader calls made
    handled,        \* the last stream block handled and its outcome
    delivered,      \* number of blocks delivered by the stream
    lastBlock,      \* number of the last block delivered by the stream
    ideal,          \* the stream's changes applied one by one: [ok, rows]
    idealAt,        \* ideal as it stood after each block, by block number
    restarted,      \* whether the process has been started again
    streamed,       \* number of table changes and undo signals delivered by the stream
    history,        \* what the dialect recorded of the reversible writes
    shutters,       \* the shutters of the stream, the sinker and its stats,
                    \* and the Shutdown calls under way
    csv             \* the CSV sinker: bundlers, saved state, last outcome

vars == <<onlyInserts, flushInterval, entries, entriesCount, rows, cursors, tx, pc,
          call, calls, handled, delivered, lastBlock, ideal, idealAt, restarted, streamed,
          history, shutters, csv>>

loaderVars == <<entries, entriesCount>>

dbVars == <<rows, cursors>>

sinkerVars == <<tx, pc, handled, delivered, lastBlock, ideal, idealAt, restarted, streamed>>

\* The Loader's mutable state as the mutation API takes it.
loader == [entries |-> entries, entriesCount |-> entriesCount]

\* ------------------------------------------------------------------------
\* Inputs
\* ------------------------------------------------------------------------

\* The module hash of the running manifest.
OutputModuleHash == "h1"

\* A cursor is identified by the number of its block; the blank cursor is -1.
BlankCursor == 0 - 1

\* Table names a caller may pass: the two tables of the schema and a
\* table the schema does not have.
TableNames == {"users", "pairs", "nope"}

\* Primary keys a caller may pass for a table.
PrimaryKeys(t) ==
    CASE t = "users" -> {[id |-> "a"], [id |-> "b"]}
      [] t = "pairs" -> {[k1 |-> "a", k2 |-> "b"]}
      [] OTHER -> {[id |-> "a"]}

\* Field maps a caller may pass.
DataMaps == {[name |-> "x"], [name |-> "y", age |-> "x"]}

\* Reversible block numbers a caller may pass.
ReversibleBlockNums == {NilBlock, 1}

NoCall == [fn |-> Nil]

\* The shutters before any Shutdown call: every one running, no call under way.
NoShutdown ==
    [state |-> [who \in {"stream", "sql", "stats"} |-> "running"],
     err |-> [who \in {"stream", "sql", "stats"} |-> Nil],
     stack |-> <<>>]

\* The CSV sinker is not in use.
NoCSV == [mode |-> "sql"]

NoBlock == [num |-> NilBlock]

\* A block has been handled since the process started.
HandledBlock == handled.num # NilBlock

EmptyRows == [t \in DOMAIN tables |-> {}]

\* A row of table users that an earlier run of the sink has stored.
StoredUserA == [cols |-> [id |-> "a", name |-> "x"], blockNum |-> NilBlock]

\* ------------------------------------------------------------------------
\* The Loader driven call by call
\* ------------------------------------------------------------------------

InitLoader ==
    /\ onlyInserts \in BOOLEAN
    /\ flushInterval = 0
    /\ entries = NewOrderedMap
    /\ entriesCount = 0
    /\ rows \in {EmptyRows, [EmptyRows EXCEPT !["users"] = {StoredUserA}]}
    /\ cursors = [h \in {OutputModuleHash} |-> BlankCursor]
    /\ tx = Nil
    /\ pc = "api"
    /\ call = NoCall
    /\ calls = 0
    /\ handled = NoBlock
    /\ delivered = 0
    /\ lastBlock = BlankCursor
    /\ ideal = [ok |-> TRUE, rows |-> EmptyRows]
    /\ idealAt = [b \in {BlankCursor} |-> ideal]
    /\ restarted = FALSE
    /\ streamed = 0
    /\ history = <<>>
    /\ shutters = NoShutdown
    /\ csv = NoCSV

Called(fn, tableName, primaryKey, data, reversibleBlockNum, r) ==
    /\ entries' = r.l.entries
    /\ entriesCount' = r.l.entriesCount
    /\ call' = [fn |-> fn, table |-> tableName, primaryKey |-> primaryKey, data |-> data,
                reversibleBlockNum |-> reversibleBlockNum, err |-> r.err, before |-> loader]
    /\ calls' = calls + 1
    /\ UNCHANGED <<onlyInserts, flushInterval, history, shutters, csv, dbVars, sinkerVars>>

CallInsert ==
    /\ pc = "api" /\ calls < MaxCalls
    /\ \E t \in TableNames : \E pk \in PrimaryKeys(t) : \E d \in DataMaps :
       \E rb \in ReversibleBlockNums :
          Called("Insert", t, pk, d, rb, Insert(loader, t, pk, d, rb))

CallUpdate ==
    /\ pc = "api" /\ calls < MaxCalls
    /\ \E t \in TableNames : \E pk \in PrimaryKeys(t) : \E d \in DataMaps :
       \E rb \in ReversibleBlockNums :
          Called("Update", t, pk, d, rb, Update(loader, onlyInserts, t, pk, d, rb))

CallDelete ==
    /\ pc = "api" /\ calls < MaxCalls
    /\ \E t \in TableNames : \E pk \in PrimaryKeys(t) : \E rb \in ReversibleBlockNums :
          Called("Delete", t, pk, EmptyMap, rb, Delete(loader, onlyInserts, t, pk, rb))

CallFlush ==
    /\ pc = "api" /\ calls < MaxCalls
    /\ \E c \in {1} :
         LET r == Flush(loader, rows, cursors, OutputModuleHash, c) IN
         /\ entries' = r.l.entries
         /\ entriesCount' = r.l.entriesCount
         /\ rows' = r.rows
         /\ cursors' = r.cursors
         /\ call' = [fn |-> "Flush", cursor |-> c, err |-> r.err, before |-> loader,
                    prev |-> IF call.fn = "Flush" THEN [fn |-> "Flush"] ELSE call]
    /\ calls' = calls + 1
    /\ UNCHANGED <<onlyInserts, flushInterval, history, shutters, csv, sinkerVars>>

NextLoader == CallInsert \/ CallUpdate \/ CallDelete \/ CallFlush

SpecLoader == InitLoader /\ [][NextLoader]_vars

\* ------------------------------------------------------------------------
\* The SQL sinker
\* ------------------------------------------------------------------------

\* TableChange operations.
TableChange_UNSET == "UNSET"

TableChange_CREATE == "CREATE"

TableChange_UPDATE == "UPDATE"

TableChange_DELETE == "DELETE"

\* A TableChange's primary key: a single Pk string, a CompositePk map, or
\* neither.
Pk(v) == [kind |-> "pk", pk |-> v, keys |-> EmptyMap]

CompositePk(m) == [kind |-> "composite", pk |-> "", keys |-> m]

NoPk == [kind |-> "none", pk |-> "", keys |-> EmptyMap]

TableChange(t, key, operation, fields) ==
    [table |-> t, primaryKey |-> key, operation |-> operation, fields |-> fields]

GetPrimaryKey(tableName, pk) ==
    LET primaryKeyColumns == tables[tableName] IN
    IF Len(primaryKeyColumns) = 0 THEN [err |-> "table has no primary key", keys |-> EmptyMap]
    ELSE IF Len(primaryKeyColumns) = 1
    THEN [err |-> Nil, keys |-> [c \in {primaryKeyColumns[1]} |-> pk]]
    ELSE [err |-> "table has a composite primary key", keys |-> EmptyMap]

RECURSIVE applyDatabaseChanges_FinalIsReversible(_, _, _, _, _)
\* applyDatabaseChanges as it would be if the block at the final block
\* height counted as reversible.
applyDatabaseChanges_FinalIsReversible(l, onlyInsertsDialect, tableChanges, blockNum, finalBlockNum) ==
    IF Len(tableChanges) = 0 THEN [err |-> Nil, l |-> l]
    ELSE
      LET change == Head(tableChanges)
          resolved ==
              IF change.primaryKey.kind = "pk" THEN GetPrimaryKey(change.table, change.primaryKey.pk)
              ELSE IF change.primaryKey.kind = "composite"
              THEN [err |-> Nil, keys |-> change.primaryKey.keys]
              ELSE [err |-> "unknown primary key type", keys |-> EmptyMap]
          reversibleBlockNum == IF blockNum >= finalBlockNum THEN blockNum ELSE NilBlock
          r == CASE change.operation = TableChange_CREATE ->
                      Insert(l, change.table, resolved.keys, change.fields, reversibleBlockNum)
                 [] change.operation = TableChange_UPDATE ->
                      Update(l, onlyInsertsDialect, change.table, resolved.keys, change.fields,
                             reversibleBlockNum)
                 [] change.operation = TableChange_DELETE ->
                      Delete(l, onlyInsertsDialect, change.table, resolved.keys, reversibleBlockNum)
                 [] OTHER -> [err |-> Nil, l |-> l]
      IN IF ~HasTable(change.table) THEN [err |-> "unknown table", l |-> l]
         ELSE IF resolved.err # Nil THEN [err |-> resolved.err, l |-> l]
         ELSE IF r.err # Nil THEN r
         ELSE applyDatabaseChanges_FinalIsReversible(r.l, onlyInsertsDialect, Tail(tableChanges),
                                                     blockNum, finalBlockNum)

RECURSIVE applyDatabaseChanges(_, _, _, _, _)
\* The changes of one block journaled in order; the first error ends the
\* loop and keeps what was journaled before it.  The result is [err, l].
applyDatabaseChanges(l, onlyInsertsDialect, tableChanges, blockNum, finalBlockNum) ==
    IF Len(tableChanges) = 0 THEN [err |-> Nil, l |-> l]
    ELSE
      LET change == Head(tableChanges)
          resolved ==
              IF change.primaryKey.kind = "pk" THEN GetPrimaryKey(change.table, change.primaryKey.pk)
              ELSE IF change.primaryKey.kind = "composite"
              THEN [err |-> Nil, keys |-> change.primaryKey.keys]
              ELSE [err |-> "unknown primary key type", keys |-> EmptyMap]
          reversibleBlockNum == IF blockNum > finalBlockNum THEN blockNum ELSE NilBlock
          r == CASE change.operation = TableChange_CREATE ->
                      Insert(l, change.table, resolved.keys, change.fields, reversibleBlockNum)
                 [] change.operation = TableChange_UPDATE ->
                      Update(l, onlyInsertsDialect, change.table, resolved.keys, change.fields,
                             reversibleBlockNum)
                 [] change.operation = TableChange_DELETE ->
                      Delete(l, onlyInsertsDialect, change.table, resolved.keys, reversibleBlockNum)
                 [] OTHER -> [err |-> Nil, l |-> l]
      IN IF ~HasTable(change.table) THEN [err |-> "unknown table", l |-> l]
         ELSE IF resolved.err # Nil THEN [err |-> resolved.err, l |-> l]
         ELSE IF r.err # Nil THEN r
         ELSE applyDatabaseChanges(r.l, onlyInsertsDialect, Tail(tableChanges), blockNum, finalBlockNum)

\* isLive points to true or to false, or is nil (the liveness checker is
\* disabled), for which batchBlockModulo panics.
Live == "true"

Historical == "false"

NilLive == "nil"

\* batchBlockModulo as it would be if it ignored the configured interval.
batchBlockModulo_IgnoresInterval(isLive, interval) ==
    IF isLive = Live THEN LIVE_BLOCK_FLUSH_EACH
    ELSE HISTORICAL_BLOCK_FLUSH_EACH

batchBlockModulo(isLive, interval) ==
    IF isLive = Live THEN LIVE_BLOCK_FLUSH_EACH
    ELSE IF interval > 0 THEN interval
    ELSE HISTORICAL_BLOCK_FLUSH_EACH

\* data.Clock.Number%s.batchBlockModulo(data, isLive) == 0
ShouldFlush(number, isLive, interval) == number % batchBlockModulo(isLive, interval) = 0

\* ------------------------------------------------------------------------
\* The stream's changes applied to the tables one by one, as the reference
\* the flushed database is compared with.  st is [ok, rows]; ok turns FALSE
\* when a change cannot be applied (unknown table, unusable key, CREATE of
\* a row that exists).
\* ------------------------------------------------------------------------

ChangeKey(change) ==
    IF change.primaryKey.kind = "composite" THEN change.primaryKey.keys
    ELSE IF change.primaryKey.kind = "pk" /\ HasTable(change.table) /\ Len(tables[change.table]) = 1
    THEN [c \in {tables[change.table][1]} |-> change.primaryKey.pk]
    ELSE EmptyMap

HasKey(cols, key) == \A c \in DOMAIN key : c \in DOMAIN cols /\ cols[c] = key[c]

ApplyChange(st, change) ==
    LET t == change.table
        key == ChangeKey(change)
    IN IF ~st.ok \/ ~HasTable(t) \/ key = EmptyMap THEN [st EXCEPT !.ok = FALSE]
       ELSE CASE change.operation = TableChange_CREATE ->
                   IF \E cols \in st.rows[t] : HasKey(cols, key)
                   THEN [st EXCEPT !.ok = FALSE]
                   ELSE [st EXCEPT !.rows[t] = @ \cup {MapOverride(change.fields, key)}]
              [] change.operation = TableChange_UPDATE ->
                   [st EXCEPT !.rows[t] =
                       {IF HasKey(cols, key) THEN MapOverride(cols, change.fields) ELSE cols : cols \in @}]
              [] change.operation = TableChange_DELETE ->
                   [st EXCEPT !.rows[t] = {cols \in @ : ~HasKey(cols, key)}]
              [] OTHER -> st

\* The Loader function a table change is translated to.
LoaderCallOf(operation) ==
    CASE operation = TableChange_CREATE -> "Insert"
      [] operation = TableChange_UPDATE -> "Update"
      [] operation = TableChange_DELETE -> "Delete"
      [] OTHER -> "none"

RECURSIVE FailingCall(_, _, _, _, _)
\* The step of applyDatabaseChanges that returned the error, as a call
\* record (fn is "none" when the change was rejected before any Loader
\* call); NoCall when no change fails.
FailingCall(l, onlyInsertsDialect, tableChanges, blockNum, finalBlockNum) ==
    IF Len(tableChanges) = 0 THEN [fn |-> Nil]
    ELSE
      LET change == Head(tableChanges)
          r == applyDatabaseChanges(l, onlyInsertsDialect, <<change>>, blockNum, finalBlockNum)
          reached == HasTable(change.table) /\ ChangeKey(change) # EmptyMap
      IN IF r.err # Nil
         THEN [fn |-> IF reached THEN LoaderCallOf(change.operation) ELSE "none",
               table |-> change.table, primaryKey |-> ChangeKey(change), data |-> change.fields,
               reversibleBlockNum |-> IF blockNum > finalBlockNum THEN blockNum ELSE NilBlock,
               err |-> r.err, before |-> l, after |-> r.l]
         ELSE FailingCall(r.l, onlyInsertsDialect, Tail(tableChanges), blockNum, finalBlockNum)

RECURSIVE ApplyChanges(_, _)
ApplyChanges(st, tableChanges) ==
    IF Len(tableChanges) = 0 THEN st
    ELSE ApplyChanges(ApplyChange(st, Head(tableChanges)), Tail(tableChanges))

\* The column values of the stored rows, per table.
Cols(rws) == [t \in DOMAIN rws |-> {r.cols : r \in rws[t]}]

\* ------------------------------------------------------------------------
\* Stream inputs
\* ------------------------------------------------------------------------

\* The table changes a block may carry that name a table and a key the
\* Loader is called with.
ChangeSet ==
    { TableChange("users", Pk("a"), TableChange_CREATE, [name |-> "x"]),
      TableChange("users", Pk("a"), TableChange_UPDATE, [name |-> "y", age |-> "x"]),
      TableChange("users", Pk("a"), TableChange_DELETE, EmptyMap),
      TableChange("users", Pk("b"), TableChange_CREATE, [name |-> "y", age |-> "x"]),
      TableChange("users", Pk("b"), TableChange_UNSET, [name |-> "x"]),
      TableChange("pairs", CompositePk([k1 |-> "a", k2 |-> "b"]), TableChange_CREATE, [name |-> "x"]) }

\* The table changes a block may carry that applyDatabaseChanges rejects
\* before any Loader call: a single key for a composite table, an unknown
\* table, no key.
BadChangeSet ==
    { TableChange("pairs", Pk("a"), TableChange_CREATE, [name |-> "x"]),
      TableChange("nope", Pk("a"), TableChange_CREATE, [name |-> "x"]),
      TableChange("users", NoPk, TableChange_CREATE, [name |-> "x"]) }

\* The lists of at most n table changes.  A rejected change ends the
\* handler, so it is the last one of its list; it comes first or second.
ChangeLists(n) ==
    UNION {[1..k -> ChangeSet] : k \in 0..n}
    \cup UNION {{Append(cs, bad) : cs \in [1..k -> ChangeSet], bad \in BadChangeSet} :
                 k \in {j \in {0, 1} : j <= n - 1}}

\* Ways the handler's checks of the payload can come out.
Payloads == {"ok", "wrong module", "wrong type", "malformed"}

\* What the stream hands to the handler with a block: the outcome of the
\* payload checks, isLive and the table changes, of which at most n.
BlockInputs(n) ==
    {[payload |-> "ok", isLive |-> live, changes |-> cs] :
        live \in {Live, Historical}, cs \in ChangeLists(n)}
    \cup {[payload |-> p, isLive |-> Live, changes |-> <<>>] : p \in Payloads \ {"ok"}}
    \cup {[payload |-> "ok", isLive |-> NilLive, changes |-> <<>>]}

\* Whether the changes hold an UPDATE or a DELETE.
HasMutation(tableChanges) ==
    \E i \in 1..Len(tableChanges) :
        tableChanges[i].operation \in {TableChange_UPDATE, TableChange_DELETE}

\* The numbers the block after block number last may have.
NextBlockNums(last) ==
    {last + 1} \cup (IF last < HISTORICAL_BLOCK_FLUSH_EACH THEN {HISTORICAL_BLOCK_FLUSH_EACH} ELSE {})

\* The final block heights block number may come with: the final block
\* height never decreases along the stream and never exceeds the block.
FinalBlockHeights(number) ==
    {f \in {0, lastBlock, number} :
        f >= 0 /\ f >= (IF "final" \in DOMAIN handled THEN handled.final ELSE 0)}

\* The lowest of them: the height a block comes with when the handler
\* returns before it reads the height.
LowestFinalBlockHeight(number) ==
    CHOOSE f \in FinalBlockHeights(number) : \A g \in FinalBlockHeights(number) : f <= g

\* Values of loader.FlushInterval().
FlushIntervals == {0, 3}

\* ------------------------------------------------------------------------
\* The sinker process
\* ------------------------------------------------------------------------

Init ==
    /\ onlyInserts \in BOOLEAN
    /\ flushInterval \in FlushIntervals
    /\ entries = NewOrderedMap
    /\ entriesCount = 0
    /\ rows = EmptyRows
    /\ cursors = [h \in {} |-> BlankCursor]
    /\ tx = Nil
    /\ pc = "init"
    /\ call = NoCall
    /\ calls = 0
    /\ handled = NoBlock
    /\ delivered = 0
    /\ lastBlock = BlankCursor
    /\ ideal = [ok |-> TRUE, rows |-> Cols(rows)]
    /\ idealAt = [b \in {BlankCursor} |-> ideal]
    /\ restarted = FALSE
    /\ streamed = 0
    /\ history = <<>>
    /\ shutters = NoShutdown
    /\ csv = NoCSV

\* The reference state at block b: the recorded one, or what is stored when
\* the stream is taken up at a block this run of the sink never saw.
IdealFrom(b) ==
    IF b \in DOMAIN idealAt THEN idealAt[b] ELSE [ok |-> TRUE, rows |-> Cols(rows)]

\* SQLSinker.Run returns before the stream starts: Shutdown(err) on the
\* sinker, which has no callback registered yet.
RunFails(err) ==
    /\ pc' = "terminated"
    /\ handled' = [num |-> NilBlock, run |-> err]
    /\ shutters' = [shutters EXCEPT !.state["sql"] = "terminated", !.err["sql"] = err]
    /\ UNCHANGED <<cursors, lastBlock, ideal, idealAt>>

\* SQLSinker.Run reaches the start of the stream at cursor, having written
\* it when write is set.
RunStarts(cursor, write) ==
    /\ cursors' = IF write THEN InsertCursor(cursors, OutputModuleHash, cursor) ELSE cursors
    /\ lastBlock' = cursor
    /\ ideal' = IdealFrom(cursor)
    /\ idealAt' = [b \in {cursor} |-> IdealFrom(cursor)]
    /\ handled' = [num |-> NilBlock, run |-> Nil]
    /\ pc' = "running"
    /\ UNCHANGED shutters

\* Run as it would be if it wrote no cursor row after a module hash
\* mismatch.
Run_SkipsCursorOnMismatch ==
    /\ pc = "init"
    /\ \E onMismatch \in MismatchPolicies : \E readOk \in BOOLEAN : \E writeOk \in BOOLEAN :
         LET got == IF readOk THEN GetCursor(cursors, OutputModuleHash, onMismatch)
                    ELSE [cursor |-> BlankCursor, mistmatchDetected |-> FALSE, err |-> "read failed"]
             notFound == got.err = ErrCursorNotFound
         IN IF got.err # Nil /\ ~notFound THEN RunFails("unable to retrieve cursor")
            ELSE IF notFound /\ ~writeOk THEN RunFails("unable to write initial empty cursor")
            ELSE IF notFound THEN RunStarts(BlankCursor, TRUE)
            ELSE RunStarts(got.cursor, FALSE)
    /\ UNCHANGED <<onlyInserts, flushInterval, history, csv, loaderVars, rows, tx, call, calls,
                   delivered, restarted, streamed>>

\* SQLSinker.Run up to the start of the stream: the cursor of the module is
\* read; a blank one is written when there is none, the one found under
\* another hash is written when the policy lets a mismatch pass; the stream
\* resumes after the cursor's block.  A failing read or write shuts the
\* sinker down before the stream starts.
Run ==
    /\ pc = "init"
    /\ \E onMismatch \in MismatchPolicies : \E readOk \in BOOLEAN : \E writeOk \in BOOLEAN :
         LET got == IF readOk THEN GetCursor(cursors, OutputModuleHash, onMismatch)
                    ELSE [cursor |-> BlankCursor, mistmatchDetected |-> FALSE, err |-> "read failed"]
             notFound == got.err = ErrCursorNotFound
         IN IF got.err # Nil /\ ~notFound THEN RunFails("unable to retrieve cursor")
            ELSE IF notFound /\ ~writeOk THEN RunFails("unable to write initial empty cursor")
            ELSE IF notFound THEN RunStarts(BlankCursor, TRUE)
            ELSE IF got.mistmatchDetected /\ ~writeOk
            THEN RunFails("unable to write new cursor after module mistmatch")
            ELSE IF got.mistmatchDetected THEN RunStarts(got.cursor, TRUE)
            ELSE RunStarts(got.cursor, FALSE)
    /\ UNCHANGED <<onlyInserts, flushInterval, history, csv, loaderVars, rows, tx, call, calls,
                   delivered, restarted, streamed>>

\* What the stream's bookkeeping becomes when it delivers block number with
\* tableChanges.
Delivered(number, tableChanges) ==
    /\ delivered' = delivered + 1
    /\ streamed' = streamed + Len(tableChanges)
    /\ lastBlock' = number
    /\ ideal' = ApplyChanges(ideal, tableChanges)
    /\ idealAt' = [b \in (DOMAIN idealAt) \cup {number} |->
                     IF b = number THEN ApplyChanges(ideal, tableChanges) ELSE idealAt[b]]

\* ------------------------------------------------------------------------
\* Shutdown.  The stream's Sinker, the SQLSinker and its stats are shutters; a
\* shutter's Shutdown runs once (later calls return at once): it stores the
\* error, calls the OnTerminating callbacks, is terminated, and calls the
\* OnTerminated callbacks.  sh is [state, err, stack], stack holding the
\* Shutdown calls under way, the innermost first.
\* ------------------------------------------------------------------------

\* OnTerminatingCalls as it would be if Run did not hook the SQLSinker's
\* Shutdown on the stream.
OnTerminatingCalls_StreamUnhooked(who) ==
    CASE who = "sql" -> <<"stream", "stats">>
      [] OTHER -> <<>>

\* The shutters whose Shutdown the OnTerminating callbacks of who call, as
\* SQLSinker.Run registers them: the stream shuts the sinker down; the sinker
\* shuts the stream down and closes its stats.
OnTerminatingCalls(who) ==
    CASE who = "stream" -> <<"sql">>
      [] who = "sql" -> <<"stream", "stats">>
      [] OTHER -> <<>>

\* The shutters whose Shutdown the OnTerminated callbacks of who call: the
\* stats shut the sinker down.
OnTerminatedCalls(who) == IF who = "stats" THEN <<"sql">> ELSE <<>>

\* who.Shutdown(err)
Shutdown(sh, who, err) ==
    IF sh.state[who] # "running" THEN sh
    ELSE [state |-> [sh.state EXCEPT ![who] = "terminating"],
          err |-> [sh.err EXCEPT ![who] = err],
          stack |-> <<[who |-> who, phase |-> "terminating", next |-> 1]>> \o sh.stack]

\* The Shutdown call under way makes its next step: the next callback, or
\* the passage to terminated, or its return.
ShutdownStep ==
    /\ shutters.stack # <<>>
    /\ LET f == Head(shutters.stack)
           callsOf == IF f.phase = "terminating" THEN OnTerminatingCalls(f.who)
                      ELSE OnTerminatedCalls(f.who)
       IN IF f.next <= Len(callsOf)
          THEN LET target == callsOf[f.next]
                   advanced == [shutters EXCEPT !.stack = <<[f EXCEPT !.next = @ + 1]>> \o Tail(@)]
               IN shutters' = Shutdown(advanced, target,
                                       IF target = "stats" THEN Nil ELSE shutters.err[f.who])
          ELSE IF f.phase = "terminating"
          THEN shutters' = [shutters EXCEPT
                               !.state[f.who] = "terminated",
                               !.stack = <<[f EXCEPT !.phase = "terminated", !.next = 1]>> \o Tail(@)]
          ELSE shutters' = [shutters EXCEPT !.stack = Tail(@)]
    /\ UNCHANGED <<onlyInserts, flushInterval, history, csv, loaderVars, dbVars, sinkerVars,
                   call, calls>>

\* The (table, primary key) pairs journal ents holds an operation for.
PendingKeys(ents) ==
    {[table |-> FlushOrder(ents)[i].table, primaryKey |-> FlushOrder(ents)[i].primaryKey] :
        i \in 1..Len(FlushOrder(ents))}

\* The (table, primary key) pairs named by the changes whose operation is
\* among operations.
KeysOf(tableChanges, operations) ==
    {[table |-> tableChanges[i].table, primaryKey |-> ChangeKey(tableChanges[i])] :
        i \in {j \in 1..Len(tableChanges) : tableChanges[j].operation \in operations}}

\* The rows for which a block's changes put a new operation in journal ents:
\* rows with no operation pending, and rows the block deletes.
FreshKeys(ents, tableChanges) ==
    {k \in KeysOf(tableChanges, {TableChange_CREATE, TableChange_UPDATE, TableChange_DELETE}) :
        k \notin PendingKeys(ents) \/ k \in KeysOf(tableChanges, {TableChange_DELETE})}

\* The rows whose pending operation of journal ents a block's changes only
\* merge into.
MergedKeys(ents, tableChanges) ==
    KeysOf(tableChanges, {TableChange_CREATE, TableChange_UPDATE, TableChange_DELETE})
        \ FreshKeys(ents, tableChanges)

\* HandleBlockScopedData as it would be if it went on to the flush decision
\* when applyDatabaseChanges returns an error.
HandleBlockScopedData_IgnoresApplyError ==
    /\ pc = "running" /\ delivered < MaxDelivered
    /\ \E number \in NextBlockNums(lastBlock) : \E final \in FinalBlockHeights(number) :
       \E input \in {i \in BlockInputs(MaxStreamed - streamed) :
                         (i.payload # "ok" \/ i.isLive = NilLive)
                             => final = LowestFinalBlockHeight(number)} :
         LET payload == input.payload
             isLive == input.isLive
             tableChanges == input.changes
             r == applyDatabaseChanges(loader, onlyInserts, tableChanges, number, final)
             seen == [num |-> number, final |-> final, isLive |-> isLive,
                      mutation |-> HasMutation(tableChanges), applied |-> FALSE,
                      err |-> Nil, flushCalled |-> FALSE, flushed |-> FALSE,
                      fresh |-> IF payload = "ok" /\ r.err = Nil
                                THEN FreshKeys(entries, tableChanges) ELSE {},
                      merged |-> IF payload = "ok" /\ r.err = Nil
                                 THEN MergedKeys(entries, tableChanges) ELSE {},
                      undone |-> IF "reverted" \in DOMAIN handled /\ handled.reverted
                                 THEN handled.undo ELSE NilBlock]
         IN
         /\ Delivered(number, tableChanges)
         /\ call' = IF payload = "ok"
                    THEN FailingCall(loader, onlyInserts, tableChanges, number, final)
                    ELSE NoCall
         /\ IF payload # "ok"
            THEN /\ handled' = [seen EXCEPT !.err = payload]
                 /\ pc' = "terminated"
                 /\ shutters' = Shutdown(shutters, "stream", payload)
                 /\ UNCHANGED <<loaderVars, tx>>
            ELSE IF isLive = NilLive
            THEN /\ handled' = [seen EXCEPT !.err = "panic", !.applied = TRUE]
                 /\ entries' = r.l.entries
                 /\ entriesCount' = r.l.entriesCount
                 /\ pc' = "crashed"
                 /\ UNCHANGED <<tx, shutters>>
            ELSE IF ShouldFlush(number, isLive, flushInterval)
            THEN /\ handled' = [seen EXCEPT !.flushCalled = TRUE, !.applied = TRUE]
                 /\ entries' = r.l.entries
                 /\ entriesCount' = r.l.entriesCount
                 /\ tx' = [rows |-> rows, cursors |-> cursors, ops |-> FlushOrder(r.l.entries),
                           next |-> 1, cursor |-> number, cursorDone |-> FALSE]
                 /\ pc' = "flushing"
                 /\ UNCHANGED shutters
            ELSE /\ handled' = [seen EXCEPT !.applied = TRUE]
                 /\ entries' = r.l.entries
                 /\ entriesCount' = r.l.entriesCount
                 /\ UNCHANGED <<tx, pc, shutters>>
    /\ UNCHANGED <<onlyInserts, flushInterval, history, csv, dbVars, calls, restarted>>

\* SQLSinker.HandleBlockScopedData up to its return or to its call of
\* Loader.Flush, which opens the transaction.
HandleBlockScopedData ==
    /\ pc = "running" /\ delivered < MaxDelivered
    /\ \E number \in NextBlockNums(lastBlock) : \E final \in FinalBlockHeights(number) :
       \E input \in {i \in BlockInputs(MaxStreamed - streamed) :
                         (i.payload # "ok" \/ i.isLive = NilLive)
                             => final = LowestFinalBlockHeight(number)} :
         LET payload == input.payload
             isLive == input.isLive
             tableChanges == input.changes
             r == applyDatabaseChanges(loader, onlyInserts, tableChanges, number, final)
             seen == [num |-> number, final |-> final, isLive |-> isLive,
                      mutation |-> HasMutation(tableChanges), applied |-> FALSE,
                      err |-> Nil, flushCalled |-> FALSE, flushed |-> FALSE,
                      fresh |-> IF payload = "ok" /\ r.err = Nil
                                THEN FreshKeys(entries, tableChanges) ELSE {},
                      merged |-> IF payload = "ok" /\ r.err = Nil
                                 THEN MergedKeys(entries, tableChanges) ELSE {},
                      undone |-> IF "reverted" \in DOMAIN handled /\ handled.reverted
                                 THEN handled.undo ELSE NilBlock]
         IN
         /\ Delivered(number, tableChanges)
         /\ call' = IF payload = "ok"
                    THEN FailingCall(loader, onlyInserts, tableChanges, number, final)
                    ELSE NoCall
         /\ IF payload # "ok"
            THEN /\ handled' = [seen EXCEPT !.err = payload]
                 /\ pc' = "terminated"
                 /\ shutters' = Shutdown(shutters, "stream", payload)
                 /\ UNCHANGED <<loaderVars, tx>>
            ELSE IF r.err # Nil
            THEN /\ handled' = [seen EXCEPT !.err = r.err]
                 /\ entries' = r.l.entries
                 /\ entriesCount' = r.l.entriesCount
                 /\ pc' = "terminated"
                 /\ shutters' = Shutdown(shutters, "stream", r.err)
                 /\ UNCHANGED tx
            ELSE IF isLive = NilLive
            THEN /\ handled' = [seen EXCEPT !.err = "panic", !.applied = TRUE]
                 /\ entries' = r.l.entries
                 /\ entriesCount' = r.l.entriesCount
                 /\ pc' = "crashed"
                 /\ UNCHANGED <<tx, shutters>>
            ELSE IF ShouldFlush(number, isLive, flushInterval)
            THEN /\ handled' = [seen EXCEPT !.flushCalled = TRUE, !.applied = TRUE]
                 /\ entries' = r.l.entries
                 /\ entriesCount' = r.l.entriesCount
                 /\ tx' = [rows |-> rows, cursors |-> cursors, ops |-> FlushOrder(r.l.entries),
                           next |-> 1, cursor |-> number, cursorDone |-> FALSE]
                 /\ pc' = "flushing"
                 /\ UNCHANGED shutters
            ELSE /\ handled' = [seen EXCEPT !.applied = TRUE]
                 /\ entries' = r.l.entries
                 /\ entriesCount' = r.l.entriesCount
                 /\ UNCHANGED <<tx, pc, shutters>>
    /\ UNCHANGED <<onlyInserts, flushInterval, history, csv, dbVars, calls, restarted>>

\* FlushExec as it would be if every statement were committed on its own.
FlushExec_AutoCommit ==
    /\ pc = "flushing" /\ tx.next <= Len(tx.ops)
    /\ LET r == ExecOperation(tx.rows, tx.ops[tx.next]) IN
       IF r.err # Nil
       THEN /\ tx' = Nil
            /\ pc' = "terminated"
            /\ handled' = [handled EXCEPT !.err = r.err]
            /\ shutters' = Shutdown(shutters, "stream", r.err)
            /\ UNCHANGED rows
       ELSE /\ tx' = [tx EXCEPT !.rows = r.rows, !.next = @ + 1]
            /\ rows' = r.rows
            /\ UNCHANGED <<pc, handled, shutters>>
    /\ UNCHANGED <<onlyInserts, flushInterval, history, csv, loaderVars, cursors, call, calls, delivered,
                   lastBlock, ideal, idealAt, restarted, streamed>>

\* Loader.Flush: the next journal operation's statement runs in the
\* transaction; a statement error rolls the transaction back, keeps the
\* journal and makes the handler return the error.
FlushExec ==
    /\ pc = "flushing" /\ tx.next <= Len(tx.ops)
    /\ LET r == ExecOperation(tx.rows, tx.ops[tx.next]) IN
       IF r.err # Nil
       THEN /\ tx' = Nil
            /\ pc' = "terminated"
            /\ handled' = [handled EXCEPT !.err = r.err]
            /\ shutters' = Shutdown(shutters, "stream", r.err)
       ELSE /\ tx' = [tx EXCEPT !.rows = r.rows, !.next = @ + 1]
            /\ UNCHANGED <<pc, handled, shutters>>
    /\ UNCHANGED <<onlyInserts, flushInterval, history, csv, loaderVars, dbVars, call, calls, delivered,
                   lastBlock, ideal, idealAt, restarted, streamed>>

\* Loader.Flush: the cursor row is updated in the transaction.
FlushUpdateCursor ==
    /\ pc = "flushing" /\ tx.next > Len(tx.ops) /\ ~tx.cursorDone
    /\ tx' = [tx EXCEPT !.cursors = UpdateCursor(@, OutputModuleHash, tx.cursor), !.cursorDone = TRUE]
    /\ UNCHANGED <<onlyInserts, flushInterval, history, shutters, csv, loaderVars, dbVars, pc, call, calls, handled,
                   delivered, lastBlock, ideal, idealAt, restarted, streamed>>

\* FlushCommit as it would be if the reset forgot the count.
FlushCommit_KeepsCount ==
    /\ pc = "flushing" /\ tx.cursorDone
    /\ rows' = tx.rows
    /\ cursors' = tx.cursors
    /\ tx' = Nil
    /\ entries' = ResetLoader.entries
    /\ handled' = [handled EXCEPT !.flushed = TRUE]
    /\ idealAt' = [b \in {c \in DOMAIN idealAt : c >= tx.cursor} |-> idealAt[b]]
    /\ history' = history \o HistoryOf(rows, tx.ops)
    /\ pc' = "running"
    /\ UNCHANGED <<onlyInserts, flushInterval, shutters, csv, entriesCount, call, calls, delivered,
                   lastBlock, ideal, restarted, streamed>>

\* Loader.Flush: the transaction commits, the journal is reset and the
\* handler returns nil.
FlushCommit ==
    /\ pc = "flushing" /\ tx.cursorDone
    /\ rows' = tx.rows
    /\ cursors' = tx.cursors
    /\ tx' = Nil
    /\ entries' = ResetLoader.entries
    /\ entriesCount' = ResetLoader.entriesCount
    /\ handled' = [handled EXCEPT !.flushed = TRUE]
    /\ idealAt' = [b \in {c \in DOMAIN idealAt : c >= tx.cursor} |-> idealAt[b]]
    /\ history' = history \o HistoryOf(rows, tx.ops)
    /\ pc' = "running"
    /\ UNCHANGED <<onlyInserts, flushInterval, shutters, csv, call, calls, delivered, lastBlock,
                   ideal, restarted, streamed>>

\* FlushFail as it would be if a failed flush dropped the journal.
FlushFail_ResetsJournal ==
    /\ pc = "flushing"
    /\ tx' = Nil
    /\ entries' = ResetLoader.entries
    /\ entriesCount' = ResetLoader.entriesCount
    /\ handled' = [handled EXCEPT !.err = "flush failed"]
    /\ pc' = "terminated"
    /\ shutters' = Shutdown(shutters, "stream", "flush failed")
    /\ UNCHANGED <<onlyInserts, flushInterval, history, csv, dbVars, call, calls, delivered,
                   lastBlock, ideal, idealAt, restarted, streamed>>

\* Loader.Flush: the database fails (connection lost, context cancelled,
\* commit refused); the transaction is rolled back, the journal is kept and
\* the handler returns the error.
FlushFail ==
    /\ pc = "flushing"
    /\ tx' = Nil
    /\ handled' = [handled EXCEPT !.err = "flush failed"]
    /\ pc' = "terminated"
    /\ shutters' = Shutdown(shutters, "stream", "flush failed")
    /\ UNCHANGED <<onlyInserts, flushInterval, history, csv, loaderVars, dbVars, call, calls, delivered,
                   lastBlock, ideal, idealAt, restarted, streamed>>

\* The process dies in the middle of a flush or of a revert; the database
\* discards the open transaction.  (Between two blocks a death of the
\* process loses the journal as a rejected payload followed by a restart
\* does.)
Crash ==
    /\ pc \in {"flushing", "reverting"}
    /\ tx' = Nil
    /\ pc' = "crashed"
    /\ UNCHANGED <<onlyInserts, flushInterval, history, shutters, csv, loaderVars, dbVars, call, calls, handled, delivered,
                   lastBlock, ideal, idealAt, restarted, streamed>>

\* The sink is started again: a new Loader with an empty journal.  A run
\* that has started the stream is started again once; a run that failed
\* before the stream started is started again without counting.
Restart ==
    /\ pc \in {"terminated", "crashed"}
    /\ ~restarted \/ "run" \in DOMAIN handled
    /\ restarted' = IF "run" \in DOMAIN handled THEN restarted ELSE TRUE
    /\ entries' = ResetLoader.entries
    /\ entriesCount' = ResetLoader.entriesCount
    /\ handled' = NoBlock
    /\ call' = NoCall
    /\ pc' = "init"
    /\ shutters' = NoShutdown
    /\ UNCHANGED <<onlyInserts, flushInterval, history, csv, dbVars, tx, calls, delivered, lastBlock,
                   ideal, idealAt, streamed>>

\* The blocks a BlockUndoSignal may name as LastValidBlock: below the last
\* block delivered, and not below the final block height.
LastValidBlocks ==
    {l \in {lastBlock - 1, lastBlock - 2} :
        l >= 0 /\ l >= (IF "final" \in DOMAIN handled THEN handled.final ELSE 0)}

\* What the undo handler leaves as the last message handled: the block
\* of the signal, the block of the cursor stored when it came, and, once
\* Revert has returned, whether it succeeded and whether it changed a row.
Undone(lastValidBlock) ==
    [num |-> NilBlock, undo |-> lastValidBlock,
     final |-> IF "final" \in DOMAIN handled THEN handled.final ELSE 0,
     from |-> cursors[OutputModuleHash],
     err |-> Nil, reverted |-> FALSE, changed |-> FALSE]

\* HandleBlockUndoSignal as it would be if it passed the cursor of the last
\* block handled instead of the signal's.
HandleBlockUndoSignal_KeepsLastCursor ==
    /\ pc = "running" /\ streamed < MaxStreamed
    /\ \E lastValidBlock \in LastValidBlocks :
         /\ tx' = [rows |-> rows, cursors |-> cursors, history |-> history,
                   last |-> lastValidBlock, cursor |-> lastBlock, step |-> "begun"]
         /\ handled' = Undone(lastValidBlock)
         /\ lastBlock' = lastValidBlock
    /\ streamed' = streamed + 1
    /\ call' = NoCall
    /\ pc' = "reverting"
    /\ UNCHANGED <<onlyInserts, flushInterval, history, shutters, csv, loaderVars, dbVars, calls,
                   delivered, ideal, idealAt, restarted>>

\* HandleBlockUndoSignal as it would be if it passed the number of the last
\* block handled instead of LastValidBlock.
HandleBlockUndoSignal_KeepsLastBlock ==
    /\ pc = "running" /\ streamed < MaxStreamed
    /\ \E lastValidBlock \in LastValidBlocks :
         /\ tx' = [rows |-> rows, cursors |-> cursors, history |-> history,
                   last |-> lastBlock, cursor |-> lastValidBlock, step |-> "begun"]
         /\ handled' = Undone(lastValidBlock)
         /\ lastBlock' = lastValidBlock
    /\ streamed' = streamed + 1
    /\ call' = NoCall
    /\ pc' = "reverting"
    /\ UNCHANGED <<onlyInserts, flushInterval, history, shutters, csv, loaderVars, dbVars, calls,
                   delivered, ideal, idealAt, restarted>>

\* SQLSinker.HandleBlockUndoSignal up to its call of Loader.Revert with the
\* signal's cursor, whose block is LastValidBlock, and with
\* data.LastValidBlock.Number; Revert opens the transaction.
HandleBlockUndoSignal ==
    /\ pc = "running" /\ streamed < MaxStreamed
    /\ \E lastValidBlock \in LastValidBlocks :
         /\ tx' = [rows |-> rows, cursors |-> cursors, history |-> history,
                   last |-> lastValidBlock, cursor |-> lastValidBlock, step |-> "begun"]
         /\ handled' = Undone(lastValidBlock)
         /\ lastBlock' = lastValidBlock
    /\ streamed' = streamed + 1
    /\ call' = NoCall
    /\ pc' = "reverting"
    /\ UNCHANGED <<onlyInserts, flushInterval, history, shutters, csv, loaderVars, dbVars, calls,
                   delivered, ideal, idealAt, restarted>>

\* Loader.Revert: the dialect's revert statement runs in the transaction.
RevertExec ==
    /\ pc = "reverting" /\ tx.step = "begun"
    /\ tx' = [tx EXCEPT !.rows = RevertRows(tx.rows, tx.history, tx.last),
                        !.history = RevertHistory(tx.history, tx.last),
                        !.step = "reverted"]
    /\ UNCHANGED <<onlyInserts, flushInterval, history, shutters, csv, loaderVars, dbVars, pc,
                   call, calls, handled, delivered, lastBlock, ideal, idealAt, restarted, streamed>>

\* Loader.Revert: the cursor row is updated in the transaction.
RevertUpdateCursor ==
    /\ pc = "reverting" /\ tx.step = "reverted"
    /\ tx' = [tx EXCEPT !.cursors = UpdateCursor(@, OutputModuleHash, tx.cursor), !.step = "cursor"]
    /\ UNCHANGED <<onlyInserts, flushInterval, history, shutters, csv, loaderVars, dbVars, pc,
                   call, calls, handled, delivered, lastBlock, ideal, idealAt, restarted, streamed>>

\* Loader.Revert: the transaction commits and the handler returns nil.  The
\* journal is not touched.
RevertCommit ==
    /\ pc = "reverting" /\ tx.step = "cursor"
    /\ rows' = tx.rows
    /\ cursors' = tx.cursors
    /\ history' = tx.history
    /\ tx' = Nil
    /\ handled' = [handled EXCEPT !.reverted = TRUE, !.changed = (rows # tx.rows)]
    /\ ideal' = [ok |-> TRUE, rows |-> Cols(tx.rows)]
    /\ idealAt' = [b \in {lastBlock} |-> [ok |-> TRUE, rows |-> Cols(tx.rows)]]
    /\ pc' = "running"
    /\ UNCHANGED <<onlyInserts, flushInterval, shutters, csv, loaderVars, call, calls, delivered,
                   lastBlock, restarted, streamed>>

\* Loader.Revert fails (the dialect cannot revert, or the database fails):
\* the transaction is rolled back and the handler returns the error.
RevertFail ==
    /\ pc = "reverting"
    /\ tx' = Nil
    /\ handled' = [handled EXCEPT !.err = "revert failed"]
    /\ pc' = "terminated"
    /\ shutters' = Shutdown(shutters, "stream", "revert failed")
    /\ UNCHANGED <<onlyInserts, flushInterval, history, csv, loaderVars, dbVars, call, calls,
                   delivered, lastBlock, ideal, idealAt, restarted, streamed>>

Next ==
    \/ Run
    \/ HandleBlockScopedData
    \/ FlushExec
    \/ FlushUpdateCursor
    \/ FlushCommit
    \/ FlushFail
    \/ Crash
    \/ Restart

Spec == Init /\ [][Next]_vars

\* ------------------------------------------------------------------------
\* The sinker with undo signals, cursors of other module hashes and the
\* shutdown of its shutters
\* ------------------------------------------------------------------------

\* The module hash of an earlier version of the manifest.
OtherModuleHash == "h0"

InitSignals ==
    /\ onlyInserts = FALSE
    /\ flushInterval = 0
    /\ entries = NewOrderedMap
    /\ entriesCount = 0
    /\ rows = EmptyRows
    /\ cursors \in {[h \in {} |-> BlankCursor], [h \in {OtherModuleHash} |-> 0]}
    /\ tx = Nil
    /\ pc = "init"
    /\ call = NoCall
    /\ calls = 0
    /\ handled = NoBlock
    /\ delivered = 0
    /\ lastBlock = BlankCursor
    /\ ideal = [ok |-> TRUE, rows |-> Cols(rows)]
    /\ idealAt = [b \in {BlankCursor} |-> ideal]
    /\ restarted = FALSE
    /\ streamed = 0
    /\ history = <<>>
    /\ shutters = NoShutdown
    /\ csv = NoCSV

NextSignals ==
    \/ Run
    \/ HandleBlockScopedData
    \/ FlushExec
    \/ FlushUpdateCursor
    \/ FlushCommit
    \/ FlushFail
    \/ HandleBlockUndoSignal
    \/ RevertExec
    \/ RevertUpdateCursor
    \/ RevertCommit
    \/ RevertFail
    \/ Crash
    \/ Restart

SpecSignals == InitSignals /\ [][NextSignals]_vars

\* ------------------------------------------------------------------------
\* The sinker with the shutdown of its shutters taken step by step.  The
\* sink is taken up where an earlier run, which handled one block with one
\* change, left it: its row and its cursor are stored.
\* ------------------------------------------------------------------------

InitShutdown ==
    /\ onlyInserts = FALSE
    /\ flushInterval = 0
    /\ entries = NewOrderedMap
    /\ entriesCount = 0
    /\ rows = [EmptyRows EXCEPT !["users"] = {StoredUserA}]
    /\ cursors = [h \in {OutputModuleHash} |-> 1]
    /\ tx = Nil
    /\ pc = "init"
    /\ call = NoCall
    /\ calls = 0
    /\ handled = NoBlock
    /\ delivered = 1
    /\ lastBlock = 1
    /\ ideal = [ok |-> TRUE, rows |-> Cols(rows)]
    /\ idealAt = [b \in {1} |-> ideal]
    /\ restarted = FALSE
    /\ streamed = 1
    /\ history = <<>>
    /\ shutters = NoShutdown
    /\ csv = NoCSV

NextShutdown ==
    \/ Run
    \/ HandleBlockScopedData
    \/ FlushExec
    \/ FlushUpdateCursor
    \/ FlushCommit
    \/ FlushFail
    \/ HandleBlockUndoSignal
    \/ RevertExec
    \/ RevertUpdateCursor
    \/ RevertCommit
    \/ RevertFail
    \/ ShutdownStep
    \/ Crash
    \/ Restart

\* A Shutdown call under way runs on: nothing in it waits for anything.
SpecShutdown == InitShutdown /\ [][NextShutdown]_vars /\ WF_vars(ShutdownStep)

\* ------------------------------------------------------------------------
\* The CSV sinker.  csv holds the bundle size and the stop block, the file
\* state store's cursor (state), the number of the block being handled
\* (num), and per table its bundler: the lines of the current boundary's
\* file, each with the block it came from (files), the header flag
\* (headerWritten), the start of the current boundary (start), the files
\* closed for upload (bundles) and the bundler's life (bundler); the Roll
\* goroutines of the block being handled (roll); the sinker's shutter
\* (shut, err), the caller whose Shutdown call runs the callbacks (closer),
\* whether the stream was told to shut down (streamTold), the
\* application's shutter (app), and whether a Roll returned an error other
\* than ErrStopBlockReached (rollFailed).
\* ------------------------------------------------------------------------

\* Values of bundleSize and of the stop block.
BundleSizes == {2, 1000}

StopBlocks == {1, 1001}

\* loader.GetColumnsForTable
GetColumnsForTable(t) ==
    CASE t = "users" -> {"id", "name", "age"}
      [] t = "pairs" -> {"k1", "k2", "name"}

\* The names cols in sort.Strings order.
SortedColumns(cols) == SortedKeys([c \in cols |-> ""])

\* getBundler's header: the sorted columns joined by commas, and a newline.
Header(t) == Join(SortedColumns(GetColumnsForTable(t)), ",") \o "\n"

\* bundler.CSVEncode: the values of fields in the order of their names.
CSVEncode(fields) ==
    LET keys == SortedKeys(fields)
    IN Join([i \in 1..Len(keys) |-> fields[keys[i]]], ",") \o "\n"

\* The BulkSinker as NewBulkSinker leaves it: a bundler per table, started
\* at the start block, not launched yet.
NewBundlers(bundleSize, stopBlock) ==
    [mode |-> "csv", bundleSize |-> bundleSize, stopBlock |-> stopBlock,
     state |-> BlankCursor, num |-> NilBlock,
     files |-> [t \in DOMAIN tables |-> <<>>],
     headerWritten |-> [t \in DOMAIN tables |-> FALSE],
     start |-> [t \in DOMAIN tables |-> 0],
     bundles |-> {},
     bundler |-> [t \in DOMAIN tables |-> "new"],
     roll |-> [t \in DOMAIN tables |-> "idle"],
     shut |-> "running", err |-> Nil, closer |-> Nil,
     rollFailed |-> FALSE, hooked |-> FALSE, streamTold |-> FALSE, app |-> "running"]

\* BulkSinker.Shutdown(err) called by who, which runs once.  Before Run has
\* registered its callbacks the sinker is terminated at once, which shuts
\* the application down; after, the caller runs the OnTerminating callback:
\* it tells the stream to shut down and goes on to close the bundlers.
BulkShutdown(c, who, err) ==
    IF c.shut # "running" THEN c
    ELSE IF ~c.hooked
    THEN [c EXCEPT !.shut = "terminated", !.err = err, !.app = "terminated"]
    ELSE [c EXCEPT !.shut = "terminating", !.err = err, !.closer = who, !.streamTold = TRUE]

RECURSIVE dumpDatabaseChangesIntoCSV(_, _)
\* BulkSinker.dumpDatabaseChangesIntoCSV: the changes of one block in
\* order; a CREATE writes the header, if it is not written yet, and the
\* encoded row to the table's bundler; an UPDATE and a DELETE do nothing;
\* any other operation is an error.  The result is [err, c].
dumpDatabaseChangesIntoCSV(c, tableChanges) ==
    IF Len(tableChanges) = 0 THEN [err |-> Nil, c |-> c]
    ELSE
      LET change == Head(tableChanges)
          t == change.table
          resolved ==
              IF change.primaryKey.kind = "pk" THEN GetPrimaryKey(t, change.primaryKey.pk)
              ELSE IF change.primaryKey.kind = "composite"
              THEN [err |-> Nil, keys |-> change.primaryKey.keys]
              ELSE [err |-> "unknown primary key type", keys |-> EmptyMap]
          fields == MapOverride(resolved.keys, change.fields)
          written == [c EXCEPT
                        !.files[t] = (IF c.headerWritten[t] THEN @
                                      ELSE Append(@, [line |-> Header(t), num |-> NilBlock]))
                                     \o <<[line |-> CSVEncode(fields), num |-> c.num]>>,
                        !.headerWritten[t] = TRUE]
      IN IF ~HasTable(t) THEN [err |-> "unknown table", c |-> c]
         ELSE IF resolved.err # Nil THEN [err |-> resolved.err, c |-> c]
         ELSE IF change.operation = TableChange_CREATE
         THEN dumpDatabaseChangesIntoCSV(written, Tail(tableChanges))
         ELSE IF change.operation \in {TableChange_UPDATE, TableChange_DELETE}
         THEN dumpDatabaseChangesIntoCSV(c, Tail(tableChanges))
         ELSE [err |-> "Currently, we only support append only databases", c |-> c]

\* Whether Bundler.Roll of table t's bundler at blockNum has a boundary to
\* close: blockNum has reached the end of the current boundary or the stop
\* block.
RollCloses(c, t, blockNum) ==
    blockNum >= c.start[t] + c.bundleSize \/ blockNum >= c.stopBlock

\* Bundler.Roll of table t's bundler at blockNum: when blockNum has reached
\* the end of the current boundary its file is closed for upload and the
\* boundary that holds blockNum is opened; at the stop block the file is
\* closed and Roll reports that the stop block is reached.
Roll(c, t, blockNum) ==
    LET closed == [c EXCEPT
                     !.bundles = @ \cup {[table |-> t, start |-> c.start[t], lines |-> c.files[t]]},
                     !.files[t] = <<>>,
                     !.headerWritten[t] = FALSE,
                     !.start[t] = blockNum - (blockNum % c.bundleSize)]
    IN IF blockNum >= c.stopBlock THEN [stop |-> TRUE, c |-> closed]
       ELSE IF RollCloses(c, t, blockNum) THEN [stop |-> FALSE, c |-> closed]
       ELSE [stop |-> FALSE, c |-> c]

\* SavesCursor as it would be if the cursor were saved on every block.
SavesCursor_Always(c, number) == TRUE

\* Whether the handler saves the cursor of block number.
SavesCursor(c, number) == number % c.bundleSize = 0

\* BulkSinker.rollAllBundlers up to wg.Wait: a goroutine per bundler is
\* started.
rollAllBundlers(c) == [c EXCEPT !.roll = [t \in DOMAIN tables |-> "rolling"]]

\* What the stream hands to the CSV handler with a block: the outcome of
\* the payload checks and the table changes, of which at most n.
BulkInputs(n) ==
    {[payload |-> "ok", changes |-> cs] : cs \in ChangeLists(n)}
    \cup {[payload |-> p, changes |-> <<>>] : p \in Payloads \ {"ok"}}

InitCSV ==
    /\ onlyInserts = TRUE
    /\ flushInterval = 0
    /\ entries = NewOrderedMap
    /\ entriesCount = 0
    /\ rows = EmptyRows
    /\ cursors = [h \in {} |-> 0]
    /\ tx = Nil
    /\ pc = "init"
    /\ call = NoCall
    /\ calls = 0
    /\ handled = NoBlock
    /\ delivered = 0
    /\ lastBlock = BlankCursor
    /\ ideal = [ok |-> TRUE, rows |-> Cols(EmptyRows)]
    /\ idealAt = [b \in {} |-> ideal]
    /\ restarted = FALSE
    /\ streamed = 0
    /\ history = <<>>
    /\ shutters = NoShutdown
    /\ csv \in {NewBundlers(b, e) : b \in BundleSizes, e \in StopBlocks}

\* BulkSinker.Run up to the start of the stream: the cursor is read from
\* the state store (a failing read other than "not found" shuts the sinker
\* down), the callbacks are registered and the bundlers are launched.
BulkSinker_Run ==
    /\ pc = "init" /\ csv.mode = "csv" /\ csv.app = "running"
    /\ \E readOk \in BOOLEAN :
         IF readOk
         THEN /\ pc' = "running"
              /\ lastBlock' = csv.state
              /\ handled' = [num |-> NilBlock, run |-> Nil]
              /\ csv' = [csv EXCEPT !.hooked = TRUE,
                                    !.bundler = [t \in DOMAIN tables |-> "running"]]
         ELSE /\ pc' = "terminated"
              /\ csv' = BulkShutdown(csv, "run", "unable to retrieve cursor")
              /\ handled' = [num |-> NilBlock, run |-> "unable to retrieve cursor"]
              /\ UNCHANGED lastBlock
    /\ UNCHANGED <<onlyInserts, flushInterval, history, shutters, loaderVars, dbVars, tx, call,
                   calls, delivered, ideal, idealAt, restarted, streamed>>

\* BulkSinker.HandleBlockScopedData up to its return with an error or to
\* the wait of rollAllBundlers: the payload checks, the rows written to the
\* bundlers, the cursor saved on a multiple of the bundle size (a failing
\* save shuts the sinker down), and the start of the Roll goroutines.  An
\* error returned ends the stream, whose callback shuts the sinker down.
BulkSinker_HandleBlockScopedData ==
    /\ pc = "running" /\ csv.mode = "csv" /\ csv.app = "running" /\ csv.shut = "running"
    /\ delivered < MaxDelivered
    /\ \E number \in NextBlockNums(lastBlock) : \E input \in BulkInputs(MaxStreamed - streamed) :
       \E saveOk \in BOOLEAN :
         LET tableChanges == input.changes
             r == dumpDatabaseChangesIntoCSV([csv EXCEPT !.num = number], tableChanges)
             saves == SavesCursor(csv, number)
             saved == [r.c EXCEPT !.state = number]
             seen == [num |-> number, mutation |-> HasMutation(tableChanges), err |-> Nil,
                      saved |-> FALSE, rolled |-> FALSE]
         IN
         /\ saves \/ saveOk
         /\ delivered' = delivered + 1
         /\ streamed' = streamed + Len(tableChanges)
         /\ lastBlock' = number
         /\ IF input.payload # "ok"
            THEN /\ handled' = [seen EXCEPT !.err = input.payload]
                 /\ pc' = "terminated"
                 /\ csv' = BulkShutdown(csv, "stream", input.payload)
            ELSE IF r.err # Nil
            THEN /\ handled' = [seen EXCEPT !.err = r.err]
                 /\ pc' = "terminated"
                 /\ csv' = BulkShutdown(r.c, "stream", r.err)
            ELSE IF saves /\ ~saveOk
            THEN /\ handled' = [seen EXCEPT !.err = "unable to save state"]
                 /\ pc' = "terminated"
                 /\ csv' = BulkShutdown(r.c, "handler", "unable to save state")
            ELSE /\ handled' = [seen EXCEPT !.saved = saves, !.rolled = TRUE]
                 /\ pc' = "rolling"
                 /\ csv' = rollAllBundlers(IF saves THEN saved ELSE r.c)
    /\ UNCHANGED <<onlyInserts, flushInterval, history, shutters, loaderVars, dbVars, tx, call,
                   calls, ideal, idealAt, restarted>>

\* A goroutine of rollAllBundlers comes back from its bundler's Roll, which
\* may fail when it has a boundary to close or when the bundler was shut
\* down under it: on an error the goroutine calls
\* Shutdown, with nil when the error is ErrStopBlockReached, and is done
\* when Shutdown has returned.
RollReturns ==
    /\ pc = "rolling" /\ csv.app = "running"
    /\ \E t \in DOMAIN tables : \E rollOk \in BOOLEAN :
         LET r == Roll(csv, t, csv.num)
             done == [r.c EXCEPT !.roll[t] = "done"]
             failed == [csv EXCEPT !.roll[t] = "done", !.rollFailed = TRUE]
             shutting(c, err) ==
                 IF c.shut = "running" /\ c.hooked
                 THEN [BulkShutdown(c, t, err) EXCEPT !.roll[t] = "shutting"]
                 ELSE BulkShutdown(c, t, err)
         IN /\ csv.roll[t] = "rolling"
            /\ rollOk \/ RollCloses(csv, t, csv.num) \/ csv.bundler[t] # "running"
            /\ csv' = IF ~rollOk THEN shutting(failed, "roll failed")
                      ELSE IF r.stop THEN shutting(done, Nil)
                      ELSE done
    /\ UNCHANGED <<onlyInserts, flushInterval, history, shutters, loaderVars, dbVars, sinkerVars,
                   call, calls>>

\* rollAllBundlers returns when every goroutine is done, and the handler
\* returns nil; a stream that was told to shut down delivers no more block.
rollAllBundlersReturns ==
    /\ pc = "rolling" /\ csv.app = "running"
    /\ \A t \in DOMAIN tables : csv.roll[t] = "done"
    /\ pc' = IF csv.streamTold THEN "terminated" ELSE "running"
    /\ csv' = [csv EXCEPT !.roll = [t \in DOMAIN tables |-> "idle"]]
    /\ UNCHANGED <<onlyInserts, flushInterval, history, shutters, loaderVars, dbVars, tx, call,
                   calls, handled, delivered, lastBlock, ideal, idealAt, restarted, streamed>>

\* BulkSinker.CloseAllFileBundlers, a bundler at a time in any order: the
\* bundler is told to shut down.
CloseAllFileBundlers ==
    /\ csv.mode = "csv" /\ csv.app = "running" /\ csv.shut = "terminating"
    /\ \E t \in DOMAIN tables :
         /\ csv.bundler[t] = "running"
         /\ csv' = [csv EXCEPT !.bundler[t] = "terminating"]
    /\ UNCHANGED <<onlyInserts, flushInterval, history, shutters, loaderVars, dbVars, sinkerVars,
                   call, calls>>

\* A bundler that was told to shut down has flushed its file and drained
\* its upload queue: it is terminated.
BundlerTerminated ==
    /\ csv.mode = "csv" /\ csv.app = "running"
    /\ \E t \in DOMAIN tables :
         /\ csv.bundler[t] = "terminating"
         /\ csv' = [csv EXCEPT !.bundler[t] = "terminated"]
    /\ UNCHANGED <<onlyInserts, flushInterval, history, shutters, loaderVars, dbVars, sinkerVars,
                   call, calls>>

\* BulkTerminated as it would be if CloseAllFileBundlers did not wait for
\* the bundlers it shut down.
BulkTerminated_SkipsWait ==
    /\ csv.mode = "csv" /\ csv.app = "running" /\ csv.shut = "terminating"
    /\ \A t \in DOMAIN tables : csv.bundler[t] # "running"
    /\ csv' = [csv EXCEPT !.shut = "terminated", !.app = "terminated",
                          !.roll = [t \in DOMAIN tables |->
                                      IF @[t] = "shutting" THEN "done" ELSE @[t]]]
    /\ UNCHANGED <<onlyInserts, flushInterval, history, shutters, loaderVars, dbVars, sinkerVars,
                   call, calls>>

\* CloseAllFileBundlers has waited for every bundler to terminate and the
\* OnTerminating callback has returned: the sinker is terminated, which
\* shuts the application down, and the Shutdown call returns to its caller.
BulkTerminated ==
    /\ csv.mode = "csv" /\ csv.app = "running" /\ csv.shut = "terminating"
    /\ \A t \in DOMAIN tables : csv.bundler[t] = "terminated"
    /\ csv' = [csv EXCEPT !.shut = "terminated", !.app = "terminated",
                          !.roll = [t \in DOMAIN tables |->
                                      IF @[t] = "shutting" THEN "done" ELSE @[t]]]
    /\ UNCHANGED <<onlyInserts, flushInterval, history, shutters, loaderVars, dbVars, sinkerVars,
                   call, calls>>

\* The application is told to quit: its OnTerminating callback calls the
\* sinker's Shutdown(nil).
AppShutdown ==
    /\ csv.mode = "csv" /\ csv.app = "running" /\ csv.shut = "running"
    /\ csv' = BulkShutdown(csv, "app", Nil)
    /\ UNCHANGED <<onlyInserts, flushInterval, history, shutters, loaderVars, dbVars, sinkerVars,
                   call, calls>>

\* BulkSinker.HandleBlockUndoSignal: always an error.
BulkSinker_HandleBlockUndoSignal ==
    /\ pc = "running" /\ csv.mode = "csv" /\ csv.app = "running" /\ csv.shut = "running"
    /\ streamed < MaxStreamed
    /\ lastBlock # BlankCursor
    /\ streamed' = streamed + 1
    /\ handled' = [num |-> NilBlock, undo |-> lastBlock, err |-> "received undo signal"]
    /\ pc' = "terminated"
    /\ csv' = BulkShutdown(csv, "stream", "received undo signal")
    /\ UNCHANGED <<onlyInserts, flushInterval, history, shutters, loaderVars, dbVars, tx,
                   call, calls, delivered, lastBlock, ideal, idealAt, restarted>>

NextCSV ==
    \/ BulkSinker_Run
    \/ BulkSinker_HandleBlockScopedData
    \/ RollReturns
    \/ rollAllBundlersReturns
    \/ CloseAllFileBundlers
    \/ BundlerTerminated
    \/ BulkTerminated
    \/ AppShutdown
    \/ BulkSinker_HandleBlockUndoSignal

SpecCSV == InitCSV /\ [][NextCSV]_vars

\* ------------------------------------------------------------------------
\* The Loader driven with composite primary keys whose values may hold the
\* separator of createRowUniqueID.
\* ------------------------------------------------------------------------

\* Values of a primary key column.
KeyValues == {"a", "a/b", "b/a"}

\* Primary keys of table pairs.
PairKeys == [{"k1", "k2"} -> KeyValues]

InitRowID ==
    /\ onlyInserts = FALSE
    /\ flushInterval = 0
    /\ entries = NewOrderedMap
    /\ entriesCount = 0
    /\ rows = EmptyRows
    /\ cursors = [h \in {OutputModuleHash} |-> BlankCursor]
    /\ tx = Nil
    /\ pc = "rowid"
    /\ call = NoCall
    /\ calls = 0
    /\ handled = NoBlock
    /\ delivered = 0
    /\ lastBlock = BlankCursor
    /\ ideal = [ok |-> TRUE, rows |-> EmptyRows]
    /\ idealAt = [b \in {BlankCursor} |-> ideal]
    /\ restarted = FALSE
    /\ streamed = 0
    /\ history = <<>>
    /\ shutters = NoShutdown
    /\ csv = NoCSV

InsertPair ==
    /\ pc = "rowid" /\ calls < MaxCalls
    /\ \E pk \in PairKeys :
          Called("Insert", "pairs", pk, [name |-> "x"], NilBlock,
                 Insert(loader, "pairs", pk, [name |-> "x"], NilBlock))

UpdatePair ==
    /\ pc = "rowid" /\ calls < MaxCalls
    /\ \E pk \in PairKeys :
          Called("Update", "pairs", pk, [name |-> "y", age |-> "x"], NilBlock,
                 Update(loader, onlyInserts, "pairs", pk, [name |-> "y", age |-> "x"], NilBlock))

NextRowID == InsertPair \/ UpdatePair

SpecRowID == InitRowID /\ [][NextRowID]_vars

\* ------------------------------------------------------------------------
\* Properties of the journal  (checked under SpecLoader)
\* ------------------------------------------------------------------------

\* Positions of the journal ents holding an operation for (t, pk).
PendingAt(ents, t, pk) ==
    {i \in 1..Len(FlushOrder(ents)) :
        FlushOrder(ents)[i].table = t /\ FlushOrder(ents)[i].primaryKey = pk}

\* The operation journal ents holds for (t, pk), when it holds one.
PendingOp(ents, t, pk) == FlushOrder(ents)[CHOOSE i \in PendingAt(ents, t, pk) : TRUE]

\* The last call was fn and got as far as looking the row up in the journal.
LookedUp(fn) ==
    /\ call.fn = fn
    /\ HasTable(call.table)
    /\ fn # "Insert" => ~onlyInserts
    /\ fn = "Delete" => Len(tables[call.table]) = 1

\* The last call left the journal and the count as they were.
CallChangedNothing ==
    /\ entries = call.before.entries
    /\ entriesCount = call.before.entriesCount

\* C1: after any sequence of Insert, Update and Delete calls, failing or not,
\* the journal holds at most one pending operation per (table, primary key).
C1_OnePendingPerRow ==
    \A t \in TableNames : \A pk \in PrimaryKeys(t) :
        Cardinality(PendingAt(entries, t, pk)) <= 1

\* A Delete has replaced a pending operation of the same row.
C1_Witness ==
    /\ call.fn = "Delete" /\ call.err = Nil
    /\ PendingAt(call.before.entries, call.table, call.primaryKey) # {}
    /\ Cardinality(PendingAt(entries, call.table, call.primaryKey)) = 1
    /\ Len(FlushOrder(entries)) >= 2

\* C2: Insert fails whenever the journal holds a pending operation of any
\* kind for the row, and leaves that operation and the count unchanged.
C2_InsertRejectsPending ==
    (call.fn = "Insert" /\ PendingAt(call.before.entries, call.table, call.primaryKey) # {})
        => /\ call.err # Nil
           /\ CallChangedNothing

\* An Insert was rejected because a Delete of the row is pending.
C2_Witness ==
    /\ call.fn = "Insert" /\ call.err # Nil
    /\ PendingAt(call.before.entries, call.table, call.primaryKey) # {}
    /\ PendingOp(call.before.entries, call.table, call.primaryKey).opType = OperationTypeDelete

\* C3: Update fails when the pending operation of the row is a Delete, and
\* leaves the pending Delete and the count unchanged.
C3_UpdateRejectsDeleted ==
    (/\ call.fn = "Update"
     /\ PendingAt(call.before.entries, call.table, call.primaryKey) # {}
     /\ PendingOp(call.before.entries, call.table, call.primaryKey).opType = OperationTypeDelete)
        => /\ call.err # Nil
           /\ CallChangedNothing

\* An Update was issued on a row whose Delete is pending.
C3_Witness ==
    /\ call.fn = "Update" /\ ~onlyInserts
    /\ PendingAt(call.before.entries, call.table, call.primaryKey) # {}
    /\ PendingOp(call.before.entries, call.table, call.primaryKey).opType = OperationTypeDelete
    /\ call.err # Nil

\* new is old overridden field by field with d.
LastWriteWins(new, old, d) ==
    /\ DOMAIN new = (DOMAIN old) \cup (DOMAIN d)
    /\ \A c \in DOMAIN d : new[c] = d[c]
    /\ \A c \in (DOMAIN old) \ (DOMAIN d) : new[c] = old[c]

\* C4: an Update that finds a pending Insert or Update keeps the operation's
\* kind, overrides its data field by field, adds no operation and leaves the
\* count; so Insert then Update is pending as one Insert of the merged fields.
C4_UpdateMerges ==
    (/\ LookedUp("Update")
     /\ PendingAt(call.before.entries, call.table, call.primaryKey) # {}
     /\ PendingOp(call.before.entries, call.table, call.primaryKey).opType # OperationTypeDelete)
        => LET old == FlushOrder(call.before.entries)
               new == FlushOrder(entries)
               at == PendingAt(call.before.entries, call.table, call.primaryKey)
           IN /\ call.err = Nil
              /\ entriesCount = call.before.entriesCount
              /\ Len(new) = Len(old)
              /\ \A i \in 1..Len(old) :
                    IF i \in at
                    THEN /\ new[i].opType = old[i].opType
                         /\ new[i].table = old[i].table
                         /\ new[i].primaryKey = old[i].primaryKey
                         /\ new[i].reversibleBlockNum = old[i].reversibleBlockNum
                         /\ LastWriteWins(new[i].data, old[i].data, call.data)
                    ELSE new[i] = old[i]

\* An Update overrode one field of a pending Insert and kept another.
C4_Witness ==
    /\ LookedUp("Update") /\ call.err = Nil
    /\ PendingAt(call.before.entries, call.table, call.primaryKey) # {}
    /\ LET old == PendingOp(call.before.entries, call.table, call.primaryKey)
           new == PendingOp(entries, call.table, call.primaryKey)
       IN /\ old.opType = OperationTypeInsert
          /\ new.opType = OperationTypeInsert
          /\ "age" \in DOMAIN old.data /\ "age" \notin DOMAIN call.data
          /\ old.data["name"] # call.data["name"]
          /\ new.data["name"] = call.data["name"]

\* The last call was a Delete of a row whose Insert was pending.
DeletedAfterInsert(c) ==
    /\ c.fn = "Delete" /\ c.err = Nil
    /\ PendingAt(c.before.entries, c.table, c.primaryKey) # {}
    /\ PendingOp(c.before.entries, c.table, c.primaryKey).opType = OperationTypeInsert

\* C5: Insert then Delete of a row leaves exactly one pending operation for
\* it, a Delete, counted once; after the following Flush the table has no
\* row with that key.
C5_InsertThenDelete ==
    /\ DeletedAfterInsert(call) =>
          /\ Cardinality(PendingAt(entries, call.table, call.primaryKey)) = 1
          /\ PendingOp(entries, call.table, call.primaryKey).opType = OperationTypeDelete
          /\ Len(FlushOrder(entries)) = Len(FlushOrder(call.before.entries))
          /\ entriesCount = call.before.entriesCount
    /\ (call.fn = "Flush" /\ call.err = Nil /\ DeletedAfterInsert(call.prev)) =>
          /\ \A r \in rows[call.prev.table] : ~RowMatches(r, call.prev.primaryKey)
          /\ entries = NewOrderedMap

\* A Flush has run after Insert then Delete of a row the table already held.
C5_Witness ==
    /\ call.fn = "Flush" /\ call.err = Nil /\ DeletedAfterInsert(call.prev)
    /\ call.prev.table = "users" /\ call.prev.primaryKey = [id |-> "a"]
    /\ rows["users"] = {}
    /\ cursors[OutputModuleHash] = call.cursor

\* C6 as claimed: a Delete, like an Update, issued against a row whose
\* pending operation is a Delete fails.
C6_DeleteOrUpdateRejectsDeleted ==
    (/\ LookedUp("Delete") \/ LookedUp("Update")
     /\ PendingAt(call.before.entries, call.table, call.primaryKey) # {}
     /\ PendingOp(call.before.entries, call.table, call.primaryKey).opType = OperationTypeDelete)
        => call.err # Nil

\* C6 amended: against a row whose pending operation is a Delete, an Update
\* fails, and a Delete succeeds: the row keeps one pending Delete, carrying
\* the new call's reversible block, and the count is unchanged.
C6_OnlyUpdateRejectsDeleted ==
    (/\ LookedUp("Delete") \/ LookedUp("Update")
     /\ PendingAt(call.before.entries, call.table, call.primaryKey) # {}
     /\ PendingOp(call.before.entries, call.table, call.primaryKey).opType = OperationTypeDelete)
        => IF call.fn = "Update"
           THEN call.err # Nil
           ELSE /\ call.err = Nil
                /\ entriesCount = call.before.entriesCount
                /\ Len(FlushOrder(entries)) = Len(FlushOrder(call.before.entries))
                /\ Cardinality(PendingAt(entries, call.table, call.primaryKey)) = 1
                /\ PendingOp(entries, call.table, call.primaryKey) =
                      newDeleteOperation(call.table, call.primaryKey, call.reversibleBlockNum)

\* A Delete was issued on a row whose Delete was pending.
C6_Witness ==
    /\ LookedUp("Delete")
    /\ PendingAt(call.before.entries, call.table, call.primaryKey) # {}
    /\ PendingOp(call.before.entries, call.table, call.primaryKey).opType = OperationTypeDelete
    /\ call.err = Nil

RECURSIVE PendingCount(_)
\* The number of operations the journal ents holds, over all its tables.
PendingCount(ents) ==
    IF Len(ents) = 0 THEN 0 ELSE Len(ents[1].value) + PendingCount(Tail(ents))

\* C25: after any sequence of Insert, Update and Delete calls, rejected
\* ones included, entriesCount is the number of pending operations of the
\* journal over all tables.
C25_CountIsPendingOperations == entriesCount = PendingCount(entries)

\* C25 witness: a call was rejected while two operations were pending, and
\* the count is theirs.
C25_Witness ==
    /\ call.fn \in {"Insert", "Update", "Delete"} /\ call.err # Nil
    /\ PendingCount(entries) = 2 /\ entriesCount = 2

\* ------------------------------------------------------------------------
\* Properties of the sinker  (checked under Spec)
\* ------------------------------------------------------------------------

\* C7: with an insert-only dialect every Update and Delete call returns an
\* error and leaves the journal and the count unchanged, so a block carrying
\* an UPDATE or a DELETE makes the handler fail without any flush.
C7_InsertOnlyRejectsMutations ==
    onlyInserts =>
        /\ call.fn \in {"Update", "Delete"} =>
              /\ call.err # Nil
              /\ call.after = call.before
              /\ CallChangedNothing
        /\ (HandledBlock /\ handled.mutation) =>
              /\ handled.err # Nil
              /\ ~handled.flushCalled
              /\ ~handled.flushed
              /\ tx = Nil
              /\ pc = "terminated"
        /\ \A i \in 1..Len(FlushOrder(entries)) :
              FlushOrder(entries)[i].opType = OperationTypeInsert

\* An UPDATE of the stream was rejected by the insert-only dialect after a
\* CREATE had been journaled.
C7_Witness ==
    /\ onlyInserts
    /\ HandledBlock /\ handled.mutation
    /\ call.fn = "Update"
    /\ call.before.entriesCount = 1
    /\ entriesCount = 1
    /\ pc = "terminated"

\* C8: after a block's changes are applied, Flush is called exactly when the
\* block number is a multiple of M: 1 for a live block, else the flush
\* interval when it is positive, else 1000.
C8_FlushExactlyOnModulo ==
    (HandledBlock /\ handled.applied /\ handled.isLive # NilLive) =>
        LET M == IF handled.isLive = Live THEN 1
                 ELSE IF flushInterval > 0 THEN flushInterval
                 ELSE 1000
        IN /\ handled.flushCalled <=> (handled.num % M = 0)
           /\ handled.isLive = Live => handled.flushCalled

\* A historical block was handled under a positive flush interval that
\* does not divide its number, and was not flushed although its number is a
\* multiple of the default.
C8_Witness ==
    /\ HandledBlock /\ handled.applied
    /\ handled.isLive = Historical
    /\ flushInterval > 0
    /\ handled.num = HISTORICAL_BLOCK_FLUSH_EACH
    /\ ~handled.flushCalled
    /\ pc = "running"

\* C9: the committed rows are the stream's changes applied one by one, in
\* stream order, up to and including the block of the persisted cursor,
\* whenever those changes can be so applied.
C9_RowsAreChangesUpToCursor ==
    OutputModuleHash \in DOMAIN cursors =>
        /\ cursors[OutputModuleHash] \in DOMAIN idealAt
        /\ idealAt[cursors[OutputModuleHash]].ok =>
              Cols(rows) = idealAt[cursors[OutputModuleHash]].rows

\* A flush has committed a window of two blocks, the first one historical
\* and left pending, with a row created in one and updated in the other.
C9_Witness ==
    /\ HandledBlock /\ handled.flushed
    /\ pc = "running"
    /\ delivered = 2
    /\ cursors[OutputModuleHash] = handled.num
    /\ idealAt[handled.num].ok
    /\ rows["users"] = {[cols |-> [id |-> "a", name |-> "y", age |-> "x"], blockNum |-> NilBlock]}
    /\ ~restarted

\* C10: the committed rows and the committed cursor change only together,
\* in the one step that commits a flush, and then to all of the journal's
\* operations and the block's cursor; a flush that fails or is cut by a
\* crash changes neither.
C10_FlushIsAtomic ==
    [][pc = "flushing" =>
          LET whole == Flush(loader, rows, cursors, OutputModuleHash, handled.num)
          IN \/ rows' = rows /\ cursors' = cursors /\ pc' # "running"
             \/ /\ whole.err = Nil
                /\ rows' = whole.rows
                /\ cursors' = whole.cursors
                /\ cursors'[OutputModuleHash] = handled.num
                /\ pc' = "running"]_vars

\* A flush is under way: statements have run in the transaction, and
\* neither their rows nor the cursor are committed.
C10_Witness ==
    /\ pc = "flushing"
    /\ tx.next > Len(tx.ops) /\ Len(tx.ops) = 2
    /\ tx.rows # rows
    /\ cursors[OutputModuleHash] # tx.cursor

\* C11: when Loader.Flush has returned success the journal holds no pending
\* operation and entriesCount is 0.
C11_JournalEmptyAfterFlush ==
    (HandledBlock /\ handled.flushed) =>
        /\ entries = NewOrderedMap
        /\ FlushOrder(entries) = <<>>
        /\ entriesCount = 0

\* A flush of a window of two blocks has committed the row of an operation
\* that was pending.
C11_Witness ==
    /\ HandledBlock /\ handled.flushed
    /\ delivered = 2
    /\ rows["users"] # {}
    /\ cursors[OutputModuleHash] = handled.num
    /\ pc = "running"

\* C12: a flush that fails commits no row and no cursor, leaves the journal
\* and the count as they were when the flush began, and makes the handler
\* return the error: no further block is handled.
C12_FailedFlushRollsBack ==
    [][(pc = "flushing" /\ pc' # "running") =>
          /\ rows' = rows /\ cursors' = cursors
          /\ entries' = entries /\ entriesCount' = entriesCount
          /\ pc' = "terminated" =>
                /\ tx' = Nil
                /\ handled'.err # Nil
                /\ handled'.flushCalled /\ ~handled'.flushed
                /\ delivered' = delivered]_vars

\* A flush has failed on a statement (the row of a pending Insert is already
\* stored), and the pending operation is still in the journal.
C12_Witness ==
    /\ pc = "terminated"
    /\ HandledBlock /\ handled.flushCalled /\ handled.err = "duplicate key"
    /\ entriesCount = 1
    /\ FlushOrder(entries)[1].opType = OperationTypeInsert
    /\ \E r \in rows["users"] : RowMatches(r, FlushOrder(entries)[1].primaryKey)
    /\ cursors[OutputModuleHash] < handled.num

\* A change of the last block handled made applyDatabaseChanges fail.
ApplyFailed == HandledBlock /\ call.fn # Nil

\* C17: when a change of a block fails to apply, the handler returns the
\* error without calling Flush, and neither the operations the block had
\* journaled before the failure nor the block's cursor are committed, then
\* or later.
C17_FailedApplyNeverFlushes ==
    /\ [](ApplyFailed =>
            /\ handled.err # Nil
            /\ ~handled.applied /\ ~handled.flushCalled /\ ~handled.flushed
            /\ tx = Nil
            /\ pc = "terminated"
            /\ cursors[OutputModuleHash] < handled.num)
    /\ [][ApplyFailed => (rows' = rows /\ cursors' = cursors /\ entries' = NewOrderedMap)]_vars

\* A second CREATE of a row was rejected after the first one, delivered by
\* the same block, had been journaled.
C17_Witness ==
    /\ ApplyFailed
    /\ call.fn = "Insert"
    /\ call.before.entriesCount = 1
    /\ FlushOrder(call.before.entries)[1].primaryKey = call.primaryKey
    /\ delivered = 1
    /\ entriesCount = 1
    /\ rows = EmptyRows

\* The reversible block number a change of block number carries when the
\* final block height is final.
ReversibleOf(number, final) == IF number > final THEN number ELSE NilBlock

\* The last block handled has been applied and its window is not committed:
\* the operations that will reach the flush are those of the journal.
AppliedPending == HandledBlock /\ handled.applied /\ ~handled.flushed

\* The operations of the journal are those of rows keys, and each carries
\* reversible block number rb.
Carry(keys, rb) ==
    \A k \in keys :
        /\ PendingAt(entries, k.table, k.primaryKey) # {}
        /\ PendingOp(entries, k.table, k.primaryKey).reversibleBlockNum = rb

\* C18 as claimed: the operation that reaches the flush for a change of a
\* block carries the block's number when the block is above its final block
\* height and no number otherwise, also when the change is an Update merged
\* into an operation an earlier block of the window journaled.
C18_OperationCarriesBlockOfChange ==
    AppliedPending =>
        Carry(handled.fresh \cup handled.merged, ReversibleOf(handled.num, handled.final))

\* C19 as claimed: an operation journaled by block B carries no number when
\* B >= finalBlock and carries B when B < finalBlock.
C19_ReversibleBelowFinal ==
    AppliedPending =>
        Carry(handled.fresh, IF handled.num >= handled.final THEN NilBlock ELSE handled.num)

\* C19 amended: an operation newly journaled by block B carries no number
\* when B <= finalBlock and carries B when B > finalBlock, and so does the
\* statement the flush runs for it.
C19_ReversibleAboveFinal ==
    /\ AppliedPending => Carry(handled.fresh, ReversibleOf(handled.num, handled.final))
    /\ (AppliedPending /\ pc = "flushing") =>
          \A i \in 1..Len(tx.ops) :
              [table |-> tx.ops[i].table, primaryKey |-> tx.ops[i].primaryKey] \in handled.fresh
                  => tx.ops[i].reversibleBlockNum = ReversibleOf(handled.num, handled.final)

\* A block above its final block height has journaled an operation next to
\* one journaled by an earlier, final block of the same window.
C19_Witness ==
    /\ AppliedPending
    /\ handled.num > handled.final
    /\ handled.fresh # {}
    /\ \E i \in 1..Len(FlushOrder(entries)) : FlushOrder(entries)[i].reversibleBlockNum = NilBlock
    /\ \E i \in 1..Len(FlushOrder(entries)) : FlushOrder(entries)[i].reversibleBlockNum = handled.num

\* ------------------------------------------------------------------------
\* Properties of undo signals and of the start  (checked under SpecSignals)
\* ------------------------------------------------------------------------

\* The last message handled is an undo signal whose Revert succeeded.
Reverted == "reverted" \in DOMAIN handled /\ handled.reverted

\* A step that commits a flush, and one that commits a revert.
FlushCommits == pc = "flushing" /\ pc' = "running"

RevertCommits == pc = "reverting" /\ pc' = "running"

\* C13: from one successful flush to the next the block of the stored
\* cursor never decreases; the only step that lowers it is the commit of
\* the Revert of a BlockUndoSignal, and that step sets it to the signal's
\* LastValidBlock.
C13_CursorLoweredOnlyByUndo ==
    [][(OutputModuleHash \in DOMAIN cursors /\ OutputModuleHash \in DOMAIN cursors') =>
         /\ FlushCommits => cursors'[OutputModuleHash] >= cursors[OutputModuleHash]
         /\ cursors'[OutputModuleHash] < cursors[OutputModuleHash] => RevertCommits
         /\ RevertCommits => cursors'[OutputModuleHash] = handled.undo]_vars

\* C13 witness: an undo signal has moved the stored cursor, which a flush
\* had advanced, back to its LastValidBlock.
C13_Witness ==
    /\ Reverted /\ pc = "running"
    /\ handled.from > handled.undo
    /\ cursors[OutputModuleHash] = handled.undo

\* C14: after the undo handler has succeeded for LastValidBlock L no user
\* row carries a block number above L and the cursor row of the module is
\* at L; rows and cursor change in the one step that commits the Revert.
C14_UndoLeavesNothingBeyond ==
    /\ [](Reverted =>
            /\ \A t \in DOMAIN rows : \A r \in rows[t] : r.blockNum <= handled.undo
            /\ cursors[OutputModuleHash] = handled.undo)
    /\ [][(pc = "reverting" /\ ~RevertCommits) => UNCHANGED dbVars]_vars

\* C14 witness: a Revert has removed or restored a row written beyond L.
C14_Witness ==
    /\ Reverted /\ handled.changed
    /\ \A t \in DOMAIN rows : \A r \in rows[t] : r.blockNum <= handled.undo
    /\ cursors[OutputModuleHash] = handled.undo

\* Run has returned before the start of the stream.
RunFailed == "run" \in DOMAIN handled /\ handled.run # Nil

\* C15: whenever Run has started the stream the cursors table holds a row
\* of the current module hash (none was stored, one was stored under this
\* hash, or one was stored under another hash and the policy lets it
\* pass), so the cursor update of a flush matches a row; when Run could
\* not read or write the cursor the sinker is shut down and the stream is
\* not started.
C15_CursorRowBeforeStream ==
    /\ pc \in {"running", "flushing", "reverting"} => OutputModuleHash \in DOMAIN cursors
    /\ (pc = "flushing" /\ tx.cursorDone) =>
           /\ OutputModuleHash \in DOMAIN tx.cursors
           /\ tx.cursors[OutputModuleHash] = tx.cursor
    /\ RunFailed => /\ pc = "terminated"
                    /\ shutters.state["sql"] = "terminated"
                    /\ shutters.err["sql"] = handled.run

\* C15 witness: the cursor was stored under another hash, Run wrote the
\* row of the current hash, and a flush has updated it.
C15_Witness ==
    /\ HandledBlock /\ handled.flushed
    /\ OtherModuleHash \in DOMAIN cursors
    /\ OutputModuleHash \in DOMAIN cursors
    /\ cursors[OutputModuleHash] = handled.num

\* C27: after an undo signal with LastValidBlock L, no change of an undone
\* block reaches the DB with a later flush, the changes that were pending
\* in the journal when the signal came included: when the block that
\* follows the signal is flushed, every row that carries a block number
\* above L is a row that block changed.
C27_UndoneChangesNeverFlushed ==
    (HandledBlock /\ handled.flushed /\ handled.undone # NilBlock) =>
        \A t \in DOMAIN rows : \A r \in rows[t] :
            r.blockNum > handled.undone =>
                \E k \in handled.fresh \cup handled.merged :
                    k.table = t /\ RowMatches(r, k.primaryKey)

\* ------------------------------------------------------------------------
\* Properties of the shutdown  (checked under SpecShutdown)
\* ------------------------------------------------------------------------

\* A stream handler has returned an error.
HandlerFailed == pc = "terminated" /\ "err" \in DOMAIN handled /\ handled.err # Nil

\* The stream's Sinker and the SQLSinker are terminated, each with an error,
\* and no Shutdown call is under way.
BothTerminated ==
    /\ shutters.state["stream"] = "terminated" /\ shutters.err["stream"] # Nil
    /\ shutters.state["sql"] = "terminated" /\ shutters.err["sql"] # Nil
    /\ shutters.stack = <<>>

\* C16: once a handler has returned an error, the stream's Sinker and the
\* SQLSinker both come to be terminated with an error (unless the process
\* is killed and started again first), and the callbacks they register on
\* each other do not re-enter: no shutter has two Shutdown calls under way.
C16_HandlerErrorTerminatesBoth ==
    /\ [](\A i, j \in 1..Len(shutters.stack) :
             shutters.stack[i].who = shutters.stack[j].who => i = j)
    /\ HandlerFailed ~> (BothTerminated \/ pc # "terminated")

\* C16 witness: a handler error has shut down the stream, the sinker and
\* its stats, each callback having called the other's Shutdown.
C16_Witness ==
    /\ HandlerFailed /\ BothTerminated
    /\ shutters.err["sql"] = handled.err
    /\ shutters.state["stats"] = "terminated"

\* ------------------------------------------------------------------------
\* Properties of the CSV sinker  (checked under SpecCSV)
\* ------------------------------------------------------------------------

\* C20: in CSV mode BulkSinker.HandleBlockScopedData returns an error for
\* every block that carries an UPDATE or a DELETE table change.
C20_CSVRejectsMutations ==
    (csv.mode = "csv" /\ HandledBlock /\ handled.mutation) => handled.err # Nil

\* The CSV handler was called with a block.
HandledCSVBlock == HandledBlock /\ "saved" \in DOMAIN handled

\* A Roll goroutine of the block being handled was started.
RollStarted == \E t \in DOMAIN tables : csv.roll[t] # "idle"

\* C21: the CSV handler saves the cursor of a block that passed its checks
\* exactly when the block's number is a multiple of the bundle size; the
\* cursor is saved before a Roll for the block is started; when the save
\* fails the handler returns an error and no Roll is performed.
C21_CursorSavedOnBundleBoundary ==
    /\ (HandledCSVBlock /\ handled.err = Nil) =>
           /\ handled.saved = (handled.num % csv.bundleSize = 0)
           /\ handled.saved => csv.state = handled.num
           /\ ~handled.saved => csv.state # handled.num
    /\ (RollStarted /\ csv.num % csv.bundleSize = 0) => csv.state = csv.num
    /\ (HandledCSVBlock /\ handled.err = "unable to save state") =>
           /\ pc = "terminated"
           /\ ~handled.rolled /\ ~RollStarted
           /\ csv.state # handled.num
           /\ csv.shut # "running"

\* A block on a multiple of the bundle size has its cursor saved and its
\* Roll goroutines running.
C21_Witness ==
    /\ HandledCSVBlock /\ handled.saved /\ handled.num = 1000 /\ csv.bundleSize = 1000
    /\ csv.state = 1000
    /\ \A t \in DOMAIN tables : csv.roll[t] = "rolling"

\* C22: when a Roll of a block's fan-out returned an error other than
\* ErrStopBlockReached, the BulkSinker that a Roll goroutine shut down
\* terminates with a non-nil error, in whatever order the goroutines
\* finish.
C22_RollErrorTerminatesWithError ==
    (csv.rollFailed /\ csv.shut # "running" /\ csv.closer \in DOMAIN tables) => csv.err # Nil

\* C23: rollAllBundlers starts a Roll on every bundler and returns only
\* when all of them have returned, so the handler of the next block runs
\* with no Roll running, and no bundler is in the hands of two goroutines at
\* once: a bundler whose Roll is running is not shut down by another
\* goroutine.
C23_BundlerOwnedByOneGoroutine ==
    /\ pc = "rolling" => \A t \in DOMAIN tables : csv.roll[t] # "idle"
    /\ pc # "rolling" => \A t \in DOMAIN tables : csv.roll[t] = "idle"
    /\ \A t \in DOMAIN tables : csv.roll[t] = "rolling" => csv.bundler[t] = "running"

\* C24: every row of a bundle comes from a block inside the bundle's
\* boundary [start, start + bundleSize): the rows of the block on which a
\* boundary ends are not in the bundle that is closed.
C24_RowsInsideBoundary ==
    \A b \in csv.bundles : \A i \in 1..Len(b.lines) :
        b.lines[i].num # NilBlock =>
            (b.start <= b.lines[i].num /\ b.lines[i].num < b.start + csv.bundleSize)

\* The row of block 1000 is in the bundle of the boundary [0, 1000), closed
\* by the Roll of block 1000 after block 0 was handled.
C24_BoundaryRowInClosedBundle ==
    /\ csv.bundleSize = 1000 /\ csv.stopBlock = 1001 /\ delivered = 2
    /\ \E b \in csv.bundles : \E i \in 1..Len(b.lines) : b.start = 0 /\ b.lines[i].num = 1000

\* C28: a BulkSinker whose Run has launched the bundlers is terminated
\* only when the stream was told to shut down and every bundler was shut
\* down and is terminated, and its termination shuts the application down.
C28_TerminatedAfterBundlers ==
    (csv.mode = "csv" /\ csv.hooked /\ csv.shut = "terminated") =>
        /\ csv.streamTold
        /\ \A t \in DOMAIN tables : csv.bundler[t] = "terminated"
        /\ csv.app = "terminated"

\* A BulkSinker that a Roll goroutine shut down is terminated.
C28_Witness ==
    /\ csv.mode = "csv" /\ csv.hooked /\ csv.shut = "terminated"
    /\ csv.closer \in DOMAIN tables
    /\ \A t \in DOMAIN tables : csv.bundler[t] = "terminated"

\* ------------------------------------------------------------------------
\* Properties of the row id  (checked under SpecRowID)
\* ------------------------------------------------------------------------

\* The operations pending in the journal ents for table t.
PendingOf(ents, t) ==
    IF OMHas(ents, t) THEN {OMGet(ents, t)[i].value : i \in 1..Len(OMGet(ents, t))} ELSE {}

\* C26: createRowUniqueID gives two distinct primary keys over the same
\* columns two distinct row ids: the key of a Loader call never has the
\* row id of an operation pending for another row of the table.
C26_RowIDIsInjective ==
    call.fn \in {"Insert", "Update"} =>
        \A op \in PendingOf(call.before.entries, call.table) :
            (op.primaryKey # call.primaryKey /\ DOMAIN op.primaryKey = DOMAIN call.primaryKey)
                => createRowUniqueID(op.primaryKey) # createRowUniqueID(call.primaryKey)

====
